---- MODULE Spec2Model ----
(***************************************************************************)
(* Verification model of lorel.ai's RunPod deployment tooling.             *)
(*                                                                         *)
(*   SpecRequest  RunPodAPIClient._request and the pod creation built on   *)
(*                it (RunPodAPIClient.create_pod, PodManager.create_pod),  *)
(*                driven by a caller of the modules package against a      *)
(*                provider that may answer, refuse, rate-limit or lose     *)
(*                any request.                                             *)
(*   SpecDeploy   main.cmd_deploy from its entry: configuration, catalog   *)
(*                fetch, candidate selection and the creation loop, with   *)
(*                interrupts.                                              *)
(*   SpecCleanup  main.cleanup and the signal handler installed by         *)
(*                setup_signal_handlers, as units: cleanup is entered      *)
(*                from the states of the module globals that the package   *)
(*                can construct (a tunnel object with its tracked          *)
(*                processes, a pod manager, an active pod id), and         *)
(*                signals arrive while it runs.                            *)
(***************************************************************************)
EXTENDS Integers, Sequences, FiniteSets, TLC

VARIABLES
    \* ---- RunPodAPIClient._request: the call in progress ----
    rq_pc,          \* "idle" | "attempt" | "done"
    rq_caller,      \* who called _request: "none" | "client" | "create_pod"
    rq_method,      \* "GET" | "POST" | "DELETE" | "none"
    rq_target,      \* the pod id in the endpoint (None for "/pods")
    attempt,        \* loop variable of `for attempt in range(retry_count)`
    rq_log,         \* what answered each HTTP request of this call, in order
    sleeps,         \* the time.sleep calls of this call, in order
    rq_result,      \* how _request ended (return value or exception)
    \* ---- PodManager / RunPodAPIClient.create_pod ----
    create_result,  \* how PodManager.create_pod ended
    current_pod_id, \* PodManager.current_pod_id (0 is None)
    \* ---- the provider ----
    remote_pods,    \* ids of the pods that exist at the provider
    call_pods,      \* ids of the pods the provider created during this call
    resp_bodies,    \* the response bodies the provider may send
    provider_accepts, \* GPU type ids for which the provider has an instance
    calls,          \* calls made so far by the driver
    \* ---- main.py: cmd_deploy and the module globals ----
    dp_pc,          \* position in cmd_deploy
    cloud_type,     \* "SECURE" | "COMMUNITY"
    is_spot,        \* args.spot
    max_cost,       \* cost ceiling in cents per hour
    min_vram_gb,    \* config.min_vram_gb
    gpu_types,      \* the catalog fetched by get_gpu_types()
    candidates,     \* select_all_candidate_gpus(...)
    cand_i,         \* index of `for i, selection in enumerate(candidates)`
    create_attempts, \* the creation attempts made, in order
    g_pod_manager,  \* _pod_manager is set
    g_current_pod_id, \* _current_pod_id (0 is None)
    exit_code,      \* return value of cmd_deploy (-1: still running)
    g_ssh_tunnel,   \* _ssh_tunnel is set
    \* ---- SSHTunnel ----
    processes,      \* SSHTunnel.processes: the tracked processes, in order
    proc_state,     \* per process: "none" | "alive" | "exited"
    proc_calls,     \* per process: the methods stop_all called on it
    \* ---- main.py: cleanup and the signal handler ----
    cl_pc,          \* position in cleanup
    cl_stage,       \* which statement of cleanup is running
    cl_i,           \* processes handled by the loop of stop_all
    in_handler,     \* cleanup was called by signal_handler
    handlers_installed, \* setup_signal_handlers has run
    signals,        \* signals delivered so far
    terminate_result, \* return value of PodManager.terminate_pod
    events,         \* what the cleanup path did, in order
    \* ---- PodManager.wait_for_running ----
    wt_pc,          \* position in wait_for_running
    elapsed,        \* time.time() - start_time, in seconds (capped at timeout)
    wt_pod,         \* local variable pod: the last snapshot that was fetched
    wt_ssh_port,    \* local variable ssh_port (0 is None)
    wt_cur,         \* how the current poll iteration went
    wt_prev,        \* how the previous poll iteration went
    wait_result,    \* how wait_for_running ended
    gq_log,         \* the answers to the HTTP requests of the last _query_graphql
    gq_result,      \* how the last _query_graphql ended
    \* ---- PodManager.terminate_pod / terminate_all_pods ----
    tp_arg,         \* the pod_id argument of the terminate_pod call in progress
    tp_before,      \* PodManager.current_pod_id when that call was made
    tp_log,         \* the terminate_pod calls that have returned, in order
    ta_pc,          \* position in terminate_all_pods
    ta_listing,     \* the pods that GET /pods listed
    ta_running,     \* running_pods, the pods the loop iterates over
    ta_i,           \* pods of running_pods handled so far
    ta_deletes,     \* the deletes terminate_all_pods issued, in order
    ta_terminated,  \* local variable terminated
    ta_result,      \* return value of terminate_all_pods (-1: none yet)
    \* ---- SSHTunnel.start_tunnels / stop_all, called directly ----
    st_pc,          \* position in start_tunnels or stop_all
    st_key,         \* self.ssh_key_path is set
    st_binds,       \* [local_ip, "127.0.0.1"], the list the loop iterates over
    st_i,           \* index of the current bind address (from 1)
    st_proc,        \* local variable process of the current attempt (0: none)
    st_ret,         \* what called stop_all: "attempt" | "stop_call"
    st_before,      \* self.processes when start_tunnels was called
    st_launched,    \* the processes the current start_tunnels call launched
    st_log,         \* the attempts of the current start_tunnels call, in order
    st_result,      \* return value of the last start_tunnels call
    st_stop,        \* the last stop_all call: what it tracked at entry
    st_calls,       \* calls of start_tunnels and stop_all made by the driver
    \* ---- gpu_selector.py ----
    sel_pc,         \* which selector functions have been applied
    sel_in,         \* the arguments: offers, min VRAM, max cost, tier, spot
    sel_all,        \* return value of select_all_candidate_gpus
    sel_best,       \* return value of select_optimal_gpu
    \* ---- signal handler ----
    suspended_requests  \* requests sent by code a signal handler interrupted
                        \* while it waited for the response

request_vars == << rq_pc, rq_caller, rq_method, rq_target, attempt, rq_log, sleeps,
                  rq_result >>

manager_vars == << create_result, current_pod_id >>

provider_vars == << remote_pods, call_pods, resp_bodies, provider_accepts >>

deploy_locals == << dp_pc, cloud_type, is_spot, max_cost, min_vram_gb, gpu_types,
                   candidates, cand_i, create_attempts, exit_code >>

deploy_vars == << deploy_locals, g_pod_manager, g_current_pod_id, g_ssh_tunnel >>

cleanup_vars == << processes, proc_state, proc_calls, cl_pc, cl_stage,
                  cl_i, in_handler, handlers_installed, signals, terminate_result,
                  events >>

wait_vars == << wt_pc, elapsed, wt_pod, wt_ssh_port, wt_cur, wt_prev, wait_result,
               gq_log, gq_result >>

terminate_vars == << tp_arg, tp_before, tp_log, ta_pc, ta_listing, ta_running, ta_i,
                    ta_deletes, ta_terminated, ta_result >>

tunnel_vars == << st_pc, st_key, st_binds, st_i, st_proc, st_ret, st_before,
                 st_launched, st_log, st_result, st_stop, st_calls >>

selector_vars == << sel_pc, sel_in, sel_all, sel_best >>

tool_vars == << tunnel_vars, selector_vars, suspended_requests >>

lifecycle_vars == << wait_vars, terminate_vars, tool_vars >>

vars == << request_vars, manager_vars, provider_vars, calls, deploy_vars,
           cleanup_vars, lifecycle_vars >>

----------------------------------------------------------------------------
(* Bounds *)

MaxCalls == 2

MaxProcs == 2

MaxSignals == 2

ProcIds == 1..MaxProcs

(* Program constants *)

retry_count == 3

None == 0

\* a decoded JSON body that is not a pod (pods are modelled by their id, 1, 2, ...)
Json == -1

----------------------------------------------------------------------------
(* HTTP responses as the client sees them *)

\* Response bodies: a length in characters, and how the text spells the phrase
\* "no longer any instances available": not at all ("none"), in lower case
\* ("lower") or with capitals ("mixed").
MarkerLen == 33

BodyLens == {0, 150, 300}

Bodies == { b \in [len : BodyLens, marker : {"none", "lower", "mixed"}] :
              b.marker # "none" => b.len >= MarkerLen }

NoBody == [len |-> 0, marker |-> "none"]

ErrorStatuses == {404, 500}

\* str.lower() on the spelling of the phrase
Lower(marker) == IF marker = "mixed" THEN "lower" ELSE marker

\* text[:k]
Truncate(len, k) == IF len <= k THEN len ELSE k

\* A response object (kind "response") or a RequestException raised by
\* session.request without any response (kind "exception": connection
\* error, read timeout).  `created` is the id of the pod the provider
\* created while handling the request (None when it created none), and
\* `deleted` the id of the pod it deleted (None when it deleted none).
Response(status, body, created, deleted) ==
    [kind |-> "response", status |-> status, body |-> body,
     created |-> created, deleted |-> deleted]

TransportFailure(created, deleted) ==
    [kind |-> "exception", status |-> 0, body |-> NoBody,
     created |-> created, deleted |-> deleted]

\* What the provider and the network can do with one HTTP request: the
\* provider carries it out and answers (POST: 200 with the new pod; DELETE and
\* GET: 200 or 204), or carries it out and the answer is lost, or the request
\* fails before it reaches the provider, or the provider refuses it.
Outcomes(method, target, fresh, bodies) ==
    LET c == IF method = "POST" THEN fresh ELSE None
        d == IF method = "DELETE" THEN target ELSE None
        ok == IF method = "POST"
              THEN {Response(200, NoBody, c, d)}
              ELSE {Response(200, NoBody, c, d), Response(204, NoBody, c, d)}
        lost == IF method = "GET" THEN {} ELSE {TransportFailure(c, d)}
    IN  ok \cup lost
        \cup {TransportFailure(None, None)}
        \cup {Response(429, b, None, None) : b \in bodies}
        \cup {Response(s, b, None, None) : s \in ErrorStatuses, b \in bodies}

----------------------------------------------------------------------------
(* RunPodAPIClient._request *)

\* response.raise_for_status(): HTTPError for 4xx and 5xx
RaisesForStatus(status) == status >= 400 /\ status < 600

\* (mutation of BackoffSeconds: a fixed two-second backoff)
BackoffSecondsFixed(a) == 2

\* wait_time = 2 ** attempt
BackoffSeconds(a) == 2 ^ a

RetryDelay == 1

\* (mutation of IsCapacityBody: the phrase is matched without .lower())
IsCapacityBodyCaseSensitive(body) == body.marker = "lower"

\* "no longer any instances available" in error_body.lower()
IsCapacityBody(body) == Lower(body.marker) = "lower"

\* hasattr(e, 'response') and e.response is not None
HasResponse(r) == r.kind = "response"

Returned(v) == [kind |-> "return", value |-> v, status |-> 0, body |-> 0]

Raised(exc, status, body) == [kind |-> exc, value |-> None, status |-> status, body |-> body]

NoResult == [kind |-> "none", value |-> None, status |-> 0, body |-> 0]

\* The value of response.json() / None for 204
JsonOf(r) == IF r.status = 204 THEN None
             ELSE IF r.created # None THEN r.created ELSE Json

\* (mutation of Iteration: a failed attempt is retried without time.sleep(1))
IterationWithoutDelay(r, a) ==
    IF HasResponse(r) /\ r.status = 429
    THEN [next |-> "continue", why |-> "rate_limit", secs |-> BackoffSeconds(a),
          result |-> NoResult]
    ELSE IF HasResponse(r) /\ ~RaisesForStatus(r.status)
    THEN [next |-> "return", why |-> "none", secs |-> 0, result |-> Returned(JsonOf(r))]
    ELSE IF HasResponse(r) /\ IsCapacityBody(r.body)
    THEN [next |-> "raise", why |-> "none", secs |-> 0,
          result |-> Raised("NoInstancesAvailableError", 0, Truncate(r.body.len, 100))]
    ELSE IF a < retry_count - 1
    THEN [next |-> "continue", why |-> "retry", secs |-> 0, result |-> NoResult]
    ELSE IF HasResponse(r)
    THEN [next |-> "raise", why |-> "none", secs |-> 0,
          result |-> Raised("RuntimeError", r.status, Truncate(r.body.len, 200))]
    ELSE [next |-> "raise", why |-> "none", secs |-> 0,
          result |-> Raised("RuntimeError", 0, 0)]

\* One iteration of the retry loop on answer r: what the loop does next
\* ("return", "raise" or "continue"), the sleep it makes (0: none) and the
\* result when it ends.
Iteration(r, a) ==
    IF HasResponse(r) /\ r.status = 429
    THEN [next |-> "continue", why |-> "rate_limit", secs |-> BackoffSeconds(a),
          result |-> NoResult]
    ELSE IF HasResponse(r) /\ ~RaisesForStatus(r.status)
    THEN [next |-> "return", why |-> "none", secs |-> 0, result |-> Returned(JsonOf(r))]
    ELSE IF HasResponse(r) /\ IsCapacityBody(r.body)
    THEN [next |-> "raise", why |-> "none", secs |-> 0,
          result |-> Raised("NoInstancesAvailableError", 0, Truncate(r.body.len, 100))]
    ELSE IF a < retry_count - 1
    THEN [next |-> "continue", why |-> "retry", secs |-> RetryDelay, result |-> NoResult]
    ELSE IF HasResponse(r)
    THEN [next |-> "raise", why |-> "none", secs |-> 0,
          result |-> Raised("RuntimeError", r.status, Truncate(r.body.len, 200))]
    ELSE [next |-> "raise", why |-> "none", secs |-> 0,
          result |-> Raised("RuntimeError", 0, 0)]

FreshPodId == Cardinality(remote_pods) + 1

\* for attempt in range(retry_count): one HTTP request and its handling
RequestAttempt ==
    /\ rq_pc = "attempt"
    /\ attempt < retry_count
    /\ \E r \in Outcomes(rq_method, rq_target, FreshPodId, resp_bodies) :
         LET it == Iteration(r, attempt) IN
         /\ rq_log' = Append(rq_log, r)
         /\ remote_pods' = IF r.created # None THEN remote_pods \cup {r.created}
                           ELSE IF r.deleted # None THEN remote_pods \ {r.deleted}
                           ELSE remote_pods
         /\ call_pods' = IF r.created # None THEN call_pods \cup {r.created}
                         ELSE call_pods
         /\ sleeps' = IF it.secs > 0
                      THEN Append(sleeps, [why |-> it.why, secs |-> it.secs])
                      ELSE sleeps
         /\ IF it.next = "continue"
            THEN /\ attempt' = attempt + 1
                 /\ UNCHANGED << rq_pc, rq_result >>
            ELSE /\ rq_pc' = "done"
                 /\ rq_result' = it.result
                 /\ UNCHANGED attempt
    /\ UNCHANGED << rq_caller, rq_method, rq_target, manager_vars, resp_bodies,
                    provider_accepts, calls, deploy_vars, cleanup_vars >>
    /\ UNCHANGED lifecycle_vars

\* The loop ends without a return or a raise: the function returns None.
RequestExhausted ==
    /\ rq_pc = "attempt"
    /\ attempt = retry_count
    /\ rq_pc' = "done"
    /\ rq_result' = Returned(None)
    /\ UNCHANGED << rq_caller, rq_method, rq_target, attempt, rq_log, sleeps,
                    manager_vars, provider_vars, calls, deploy_vars, cleanup_vars >>
    /\ UNCHANGED lifecycle_vars

----------------------------------------------------------------------------
(* The callers of _request *)

EnterRequest(caller, method, target) ==
    /\ rq_pc' = "attempt"
    /\ rq_caller' = caller
    /\ rq_method' = method
    /\ rq_target' = target
    /\ attempt' = 0
    /\ rq_log' = << >>
    /\ sleeps' = << >>
    /\ rq_result' = NoResult
    /\ call_pods' = {}

\* A caller of the package issues self._request(method, endpoint).
CallRequest ==
    /\ rq_pc \in {"idle", "done"}
    /\ rq_caller \in {"none", "client"}
    /\ calls < MaxCalls
    /\ \E m \in {"GET", "DELETE"} : EnterRequest("client", m, 1)
    /\ calls' = calls + 1
    /\ create_result' = NoResult
    /\ UNCHANGED << current_pod_id, remote_pods, resp_bodies, provider_accepts,
                    deploy_vars, cleanup_vars >>
    /\ UNCHANGED lifecycle_vars

\* PodManager.create_pod -> RunPodAPIClient.create_pod -> _request("POST", "/pods")
CallCreatePod ==
    /\ rq_pc \in {"idle", "done"}
    /\ rq_caller \in {"none", "client"}
    /\ calls < MaxCalls
    /\ EnterRequest("create_pod", "POST", None)
    /\ calls' = calls + 1
    /\ create_result' = NoResult
    /\ UNCHANGED << current_pod_id, remote_pods, resp_bodies, provider_accepts,
                    deploy_vars, cleanup_vars >>
    /\ UNCHANGED lifecycle_vars

\* RunPodAPIClient.create_pod: return self._parse_pod(response), then
\* PodManager.create_pod: self.current_pod_id = pod.id; return pod.
\* _parse_pod(None) raises AttributeError (None has no .get).
CreatePodReturn ==
    /\ rq_pc = "done"
    /\ rq_caller = "create_pod"
    /\ rq_caller' = "none"
    /\ IF rq_result.kind # "return"
       THEN /\ create_result' = rq_result
            /\ UNCHANGED current_pod_id
       ELSE IF rq_result.value = None
       THEN /\ create_result' = Raised("AttributeError", 0, 0)
            /\ UNCHANGED current_pod_id
       ELSE /\ create_result' = Returned(rq_result.value)
            /\ current_pod_id' = rq_result.value
    /\ UNCHANGED << rq_pc, rq_method, rq_target, attempt, rq_log, sleeps, rq_result,
                    provider_vars, calls, deploy_vars, cleanup_vars >>
    /\ UNCHANGED lifecycle_vars

----------------------------------------------------------------------------
(* gpu_selector.py: the fallback list of candidates *)

\* a price field that is None
NoPrice == -1

\* if cloud_type == "SECURE" and not gpu.secure_cloud: continue
\* if cloud_type == "COMMUNITY" and not gpu.community_cloud: continue
TierUnsupported(gpu, ct) ==
    \/ ct = "SECURE" /\ ~gpu.secure_cloud
    \/ ct = "COMMUNITY" /\ ~gpu.community_cloud

\* the price field matching (cloud tier x spot flag)
PriceOf(gpu, ct, spot) ==
    IF ct = "SECURE"
    THEN (IF spot THEN gpu.secure_spot_price ELSE gpu.secure_price)
    ELSE (IF spot THEN gpu.community_spot_price ELSE gpu.community_price)

\* (mutation of PassesFilters: the cost ceiling is not applied)
PassesFiltersWithoutCost(gpu, vram, cost, ct, spot) ==
    /\ ~TierUnsupported(gpu, ct)
    /\ ~(gpu.memory_in_gb < vram)
    /\ PriceOf(gpu, ct, spot) # NoPrice

\* the filters of the selection loop: an offer that reaches candidates.append
PassesFilters(gpu, vram, cost, ct, spot) ==
    /\ ~TierUnsupported(gpu, ct)
    /\ ~(gpu.memory_in_gb < vram)
    /\ PriceOf(gpu, ct, spot) # NoPrice
    /\ ~(PriceOf(gpu, ct, spot) > cost)

GPUSelection(gpu, ct, spot) ==
    [gpu_type_id |-> gpu.id, gpu_count |-> 1,
     cost_per_hour |-> PriceOf(gpu, ct, spot), memory_gb |-> gpu.memory_in_gb]

\* (mutation of InsertByCost: an equal price goes before the earlier ones)
InsertByCostBeforeEqual(sorted, x) ==
    LET k == Cardinality({j \in 1..Len(sorted) : sorted[j].cost_per_hour < x.cost_per_hour})
    IN  SubSeq(sorted, 1, k) \o << x >> \o SubSeq(sorted, k + 1, Len(sorted))

\* list.sort(key=lambda x: x.cost_per_hour): a stable sort
InsertByCost(sorted, x) ==
    LET k == Cardinality({j \in 1..Len(sorted) : sorted[j].cost_per_hour <= x.cost_per_hour})
    IN  SubSeq(sorted, 1, k) \o << x >> \o SubSeq(sorted, k + 1, Len(sorted))

RECURSIVE SortByCost(_)
SortByCost(seq) ==
    IF seq = << >> THEN << >>
    ELSE InsertByCost(SortByCost(SubSeq(seq, 1, Len(seq) - 1)), seq[Len(seq)])

\* (mutation of select_all_candidate_gpus: only the cheapest is returned)
select_all_candidate_gpusCheapestOnly(offers, vram, cost, ct, spot) ==
    LET kept == SelectSeq(offers, LAMBDA g : PassesFilters(g, vram, cost, ct, spot))
        sorted == SortByCost([j \in 1..Len(kept) |-> GPUSelection(kept[j], ct, spot)])
    IN  IF sorted = << >> THEN << >> ELSE << sorted[1] >>

select_all_candidate_gpus(offers, vram, cost, ct, spot) ==
    LET kept == SelectSeq(offers, LAMBDA g : PassesFilters(g, vram, cost, ct, spot))
    IN  SortByCost([j \in 1..Len(kept) |-> GPUSelection(kept[j], ct, spot)])

\* max(g.memory_in_gb for g in available_gpus)
MaxMemory(gpus) ==
    CHOOSE v \in { gpus[j].memory_in_gb : j \in 1..Len(gpus) } :
        \A j \in 1..Len(gpus) : gpus[j].memory_in_gb <= v

\* What select_optimal_gpu returns: the selection (a sequence of at most one
\* element stands for Optional[GPUSelection]) and the error message, of which
\* the kind and the reported VRAM are kept.
OptimalResult(selection, diagnostic, max_vram) ==
    [selection |-> selection, diagnostic |-> diagnostic, max_vram |-> max_vram]

NoSelectorResult == OptimalResult(<< >>, "none", 0)

NoSelectorInput == [offers |-> << >>, vram |-> 0, cost |-> 0, ct |-> "none",
                    spot |-> FALSE]

\* (mutation of Cheapest: the last element of the sorted list)
CheapestFromTheEnd(sorted) == sorted[Len(sorted)]

\* candidates[0] of the sorted list
Cheapest(sorted) == sorted[1]

\* (mutation of select_optimal_gpu: the VRAM floor is looked at before the tier)
select_optimal_gpuVramFirst(offers, vram, cost, ct, spot) ==
    LET kept == SelectSeq(offers, LAMBDA g : PassesFilters(g, vram, cost, ct, spot))
        found == [j \in 1..Len(kept) |-> GPUSelection(kept[j], ct, spot)]
        available_gpus == SelectSeq(offers, LAMBDA g :
                              \/ ct = "SECURE" /\ g.secure_cloud
                              \/ ct = "COMMUNITY" /\ g.community_cloud)
        vram_filtered == SelectSeq(offers, LAMBDA g : g.memory_in_gb >= vram)
    IN  IF found = << >>
        THEN IF vram_filtered = << >> /\ offers # << >>
             THEN OptimalResult(<< >>, "no_gpus_with_vram", MaxMemory(offers))
             ELSE IF available_gpus = << >>
             THEN OptimalResult(<< >>, "no_gpus_in_cloud", 0)
             ELSE OptimalResult(<< >>, "no_gpus_under_cost", 0)
        ELSE OptimalResult(<< Cheapest(SortByCost(found)) >>, "none", 0)

select_optimal_gpu(offers, vram, cost, ct, spot) ==
    LET kept == SelectSeq(offers, LAMBDA g : PassesFilters(g, vram, cost, ct, spot))
        found == [j \in 1..Len(kept) |-> GPUSelection(kept[j], ct, spot)]
        available_gpus == SelectSeq(offers, LAMBDA g :
                              \/ ct = "SECURE" /\ g.secure_cloud
                              \/ ct = "COMMUNITY" /\ g.community_cloud)
        vram_filtered == SelectSeq(available_gpus, LAMBDA g : g.memory_in_gb >= vram)
    IN  IF found = << >>
        THEN IF available_gpus = << >>
             THEN OptimalResult(<< >>, "no_gpus_in_cloud", 0)
             ELSE IF vram_filtered = << >>
             THEN OptimalResult(<< >>, "no_gpus_with_vram", MaxMemory(available_gpus))
             ELSE OptimalResult(<< >>, "no_gpus_under_cost", 0)
        ELSE OptimalResult(<< Cheapest(SortByCost(found)) >>, "none", 0)

MaxSelOffers == 3

\* The price fields and tier flags of the offers the functions are applied
\* to: secure only; both tiers; community only, with a secure price all the
\* same; both tiers with some fields undefined.
PriceProfiles ==
    { [secure_cloud |-> TRUE, community_cloud |-> FALSE, secure_price |-> 20,
       secure_spot_price |-> 10, community_price |-> NoPrice,
       community_spot_price |-> NoPrice],
      [secure_cloud |-> TRUE, community_cloud |-> TRUE, secure_price |-> 40,
       secure_spot_price |-> 20, community_price |-> 20,
       community_spot_price |-> NoPrice],
      [secure_cloud |-> FALSE, community_cloud |-> TRUE, secure_price |-> 10,
       secure_spot_price |-> NoPrice, community_price |-> 60,
       community_spot_price |-> 40],
      [secure_cloud |-> TRUE, community_cloud |-> TRUE, secure_price |-> 60,
       secure_spot_price |-> NoPrice, community_price |-> 40,
       community_spot_price |-> 20] }

Memories == {16, 24, 40}

\* a GPUInfo
Offer(id, mem, pp) ==
    [id |-> id, memory_in_gb |-> mem, secure_price |-> pp.secure_price,
     community_price |-> pp.community_price,
     secure_spot_price |-> pp.secure_spot_price,
     community_spot_price |-> pp.community_spot_price,
     secure_cloud |-> pp.secure_cloud, community_cloud |-> pp.community_cloud]

\* The catalogs of up to MaxSelOffers offers: offer j of the list has id j.
SelectorCatalogs ==
    UNION { { [j \in 1..n |-> Offer(j, c[j][1], c[j][2])] :
                c \in [1..n -> Memories \X PriceProfiles] } : n \in 0..MaxSelOffers }

\* the arguments of the two selector functions
SelectorInputs ==
    [offers : SelectorCatalogs, vram : {16, 40}, cost : {50},
     ct : {"SECURE", "COMMUNITY"}, spot : BOOLEAN]

selector_frame == << request_vars, manager_vars, provider_vars, calls, deploy_vars,
                    cleanup_vars, wait_vars, terminate_vars, tunnel_vars,
                    suspended_requests >>

\* candidates = select_all_candidate_gpus(gpu_types, ...)
Select_All ==
    /\ sel_pc = "idle"
    /\ sel_pc' = "selected_all"
    /\ sel_all' = select_all_candidate_gpus(sel_in.offers, sel_in.vram, sel_in.cost,
                                            sel_in.ct, sel_in.spot)
    /\ UNCHANGED << sel_in, sel_best >>
    /\ UNCHANGED selector_frame

\* selection, error = select_optimal_gpu(gpu_types, ...)
Select_Optimal ==
    /\ sel_pc = "idle"
    /\ sel_pc' = "selected_optimal"
    /\ sel_best' = select_optimal_gpu(sel_in.offers, sel_in.vram, sel_in.cost,
                                      sel_in.ct, sel_in.spot)
    /\ UNCHANGED << sel_in, sel_all >>
    /\ UNCHANGED selector_frame

----------------------------------------------------------------------------
(* main.py: cmd_deploy *)

MaxOffers == 2

\* The catalogs the provider may return: offer j of the list has id j.
OfferChoices(id) ==
    [id : {id}, memory_in_gb : {8, 24},
     secure_price : {NoPrice, 20, 40}, community_price : {NoPrice},
     secure_spot_price : {NoPrice}, community_spot_price : {25},
     secure_cloud : {TRUE}, community_cloud : {TRUE}]

Catalogs ==
    UNION { { c \in [1..n -> UNION {OfferChoices(id) : id \in 1..n}] :
                \A j \in 1..n : c[j].id = j } : n \in 0..MaxOffers }

\* the keyword arguments of the call at main.py:128-135
DeployCreatePodKwargs ==
    {"docker_image", "gpu_type_id", "cloud_type", "is_spot", "container_disk_gb",
     "ssh_password"}

\* the parameters of PodManager.create_pod (pod_manager.py:22-30)
PodManagerCreatePodParams ==
    {"docker_image", "gpu_type_id", "cloud_type", "is_spot", "container_disk_gb",
     "public_key"}

\* Python binds a call's keyword arguments to the parameters of the callee;
\* a keyword that names no parameter raises TypeError before the body runs.
CallBinds(kwargs, params) == kwargs \subseteq params

\* How one call of _pod_manager.create_pod(...) from the creation loop ends.
CreatePodOutcomes(gpu_type_id) ==
    IF ~CallBinds(DeployCreatePodKwargs, PodManagerCreatePodParams)
    THEN {[outcome |-> "TypeError", http |-> 0]}
    ELSE {[outcome |-> "RuntimeError", http |-> n] : n \in 1..retry_count}
         \cup (IF gpu_type_id \in provider_accepts
               THEN {[outcome |-> "created", http |-> 1]}
               ELSE {[outcome |-> "NoInstancesAvailableError", http |-> 1]})

\* (mutation of CreateControl: every exception moves on to the next candidate)
CreateControlContinueOnError(outcome) ==
    IF outcome = "created" THEN "break" ELSE "continue"

\* The try statement of the creation loop: break after a creation,
\* continue on NoInstancesAvailableError, return 1 on any other Exception.
CreateControl(outcome) ==
    IF outcome = "created" THEN "break"
    ELSE IF outcome = "NoInstancesAvailableError" THEN "continue"
    ELSE "return"

DeployExit(code) ==
    /\ dp_pc' = "exit"
    /\ exit_code' = code

\* What Config.load() and config.validate() give:
\*   ValueError  int() or float() of _load_values raises on the text of
\*               MIN_VRAM_GB, MAX_COST_PER_HOUR or CONTAINER_DISK_GB
\*   invalid     validate() returns (False, error)
\*   valid       validate() returns (True, "")
ConfigOutcomes == {"ValueError", "invalid", "valid"}

\* Config.load(), config.validate(), cloud type and cost ceiling,
\* RunPodAPIClient(...), PodManager(...).  Config.load() is called outside
\* any try statement: what it raises leaves cmd_deploy.
Deploy_LoadConfig ==
    /\ dp_pc = "start"
    /\ \E cfg \in ConfigOutcomes, spot \in BOOLEAN, mc \in {20, 100}, vram \in {16} :
         IF cfg = "ValueError"
         THEN /\ dp_pc' = "raised"
              /\ UNCHANGED << exit_code, cloud_type, is_spot, max_cost, min_vram_gb,
                              g_pod_manager >>
         ELSE IF cfg = "invalid"
         THEN /\ DeployExit(1)
              /\ UNCHANGED << cloud_type, is_spot, max_cost, min_vram_gb, g_pod_manager >>
         ELSE /\ is_spot' = spot
              /\ cloud_type' = IF spot THEN "COMMUNITY" ELSE "SECURE"
              /\ max_cost' = IF spot /\ mc > 50 THEN (IF mc < 30 THEN mc ELSE 30) ELSE mc
              /\ min_vram_gb' = vram
              /\ g_pod_manager' = TRUE
              /\ dp_pc' = "fetch_gpus"
              /\ UNCHANGED exit_code
    /\ UNCHANGED << gpu_types, candidates, cand_i, create_attempts, g_current_pod_id,
                    g_ssh_tunnel >>
    /\ UNCHANGED << request_vars, manager_vars, provider_vars, calls, cleanup_vars >>
    /\ UNCHANGED lifecycle_vars

\* gpu_types = api_client.get_gpu_types(), return 1 on any Exception
Deploy_FetchGpuTypes ==
    /\ dp_pc = "fetch_gpus"
    /\ \/ /\ DeployExit(1)
          /\ UNCHANGED gpu_types
       \/ /\ \E c \in Catalogs : gpu_types' = c
          /\ dp_pc' = "select"
          /\ UNCHANGED exit_code
    /\ UNCHANGED << cloud_type, is_spot, max_cost, min_vram_gb, candidates, cand_i,
                    create_attempts, g_pod_manager, g_current_pod_id, g_ssh_tunnel >>
    /\ UNCHANGED << request_vars, manager_vars, provider_vars, calls, cleanup_vars >>
    /\ UNCHANGED lifecycle_vars

\* display_gpu_options(...); candidates = select_all_candidate_gpus(...);
\* return 1 when there is none
Deploy_SelectCandidates ==
    /\ dp_pc = "select"
    /\ LET cs == select_all_candidate_gpus(gpu_types, min_vram_gb, max_cost,
                                           cloud_type, is_spot)
       IN  /\ candidates' = cs
           /\ IF cs = << >>
              THEN DeployExit(1)
              ELSE /\ dp_pc' = "create"
                   /\ UNCHANGED exit_code
    /\ cand_i' = 0
    /\ UNCHANGED << cloud_type, is_spot, max_cost, min_vram_gb, gpu_types,
                    create_attempts, g_pod_manager, g_current_pod_id, g_ssh_tunnel >>
    /\ UNCHANGED << request_vars, manager_vars, provider_vars, calls, cleanup_vars >>
    /\ UNCHANGED lifecycle_vars

\* One iteration of `for i, selection in enumerate(candidates)`: the call of
\* _pod_manager.create_pod and the try statement around it, then the next
\* iteration, or `if pod is None: return 1` when the list is used up.
Deploy_TryCandidate ==
    /\ dp_pc = "create"
    /\ cand_i < Len(candidates)
    /\ LET selection == candidates[cand_i + 1] IN
       \E o \in CreatePodOutcomes(selection.gpu_type_id) :
         /\ create_attempts' = Append(create_attempts,
                [index |-> cand_i, gpu |-> selection.gpu_type_id,
                 outcome |-> o.outcome, http |-> o.http])
         /\ IF CreateControl(o.outcome) = "break"
            THEN /\ g_current_pod_id' = FreshPodId
                 /\ current_pod_id' = FreshPodId
                 /\ remote_pods' = remote_pods \cup {FreshPodId}
                 /\ dp_pc' = "wait_for_running"
                 /\ UNCHANGED << cand_i, exit_code >>
            ELSE IF CreateControl(o.outcome) = "continue"
            THEN /\ IF cand_i + 1 < Len(candidates)
                    THEN UNCHANGED << dp_pc, exit_code >>
                    ELSE DeployExit(1)
                 /\ cand_i' = cand_i + 1
                 /\ UNCHANGED << g_current_pod_id, current_pod_id, remote_pods >>
            ELSE /\ DeployExit(1)
                 /\ UNCHANGED << cand_i, g_current_pod_id, current_pod_id, remote_pods >>
    /\ UNCHANGED << cloud_type, is_spot, max_cost, min_vram_gb, gpu_types, candidates,
                    g_pod_manager, g_ssh_tunnel >>
    /\ UNCHANGED << request_vars, create_result, call_pods, resp_bodies,
                    provider_accepts, calls, cleanup_vars >>
    /\ UNCHANGED lifecycle_vars

\* SIGINT or SIGTERM while cmd_deploy runs these stages: no handler has been
\* installed yet (setup_signal_handlers is called at main.py:193), so SIGINT
\* raises KeyboardInterrupt, which no except clause of these stages catches,
\* and SIGTERM ends the process.
Deploy_Interrupt ==
    /\ dp_pc \in {"start", "fetch_gpus", "select", "create"}
    /\ dp_pc' = "interrupted"
    /\ UNCHANGED << cloud_type, is_spot, max_cost, min_vram_gb, gpu_types, candidates,
                    cand_i, create_attempts, g_pod_manager, g_current_pod_id,
                    exit_code, g_ssh_tunnel >>
    /\ UNCHANGED << request_vars, manager_vars, provider_vars, calls, cleanup_vars >>
    /\ UNCHANGED lifecycle_vars

----------------------------------------------------------------------------
(* pod_manager.py / api_client.py: terminate_pod *)

\* PodManager.terminate_pod(pod_id): target_id = pod_id or self.current_pod_id,
\* then RunPodAPIClient.terminate_pod(target_id) -> _request("DELETE", ...)
EnterTerminatePod(pod_id) ==
    EnterRequest("terminate_pod", "DELETE",
                 IF pod_id # None THEN pod_id ELSE current_pod_id)

\* RunPodAPIClient.terminate_pod: True unless _request raised an Exception
ApiTerminateSucceeds(result) == result.kind = "return"

\* if success: if target_id == self.current_pod_id: self.current_pod_id = None
ActiveIdAfter(success, target, active) ==
    IF success /\ target = active THEN None ELSE active

\* RunPodAPIClient.terminate_pod returns True unless _request raised an
\* Exception; PodManager.terminate_pod then clears its active id when the
\* delete succeeded and the id matches, and returns success.
TerminatePodReturn ==
    /\ rq_pc = "done"
    /\ rq_caller = "terminate_pod"
    /\ cl_pc = "pod_request"
    /\ LET success == ApiTerminateSucceeds(rq_result) IN
       /\ terminate_result' = IF success THEN "True" ELSE "False"
       /\ current_pod_id' = ActiveIdAfter(success, rq_target, current_pod_id)
    /\ rq_caller' = "none"
    /\ cl_pc' = "pod_unset"
    /\ UNCHANGED << rq_pc, rq_method, rq_target, attempt, rq_log, sleeps, rq_result >>
    /\ UNCHANGED << create_result, provider_vars, calls, deploy_vars >>
    /\ UNCHANGED << processes, proc_state, proc_calls, cl_stage, cl_i, in_handler,
                    handlers_installed, signals, events >>
    /\ UNCHANGED lifecycle_vars

----------------------------------------------------------------------------
(* ssh_tunnel.py: stop_all, and main.py: cleanup *)

\* (mutation of CleanupStages: the pod is terminated before the tunnels stop)
CleanupStagesPodFirst == << "pod", "ssh_tunnel" >>

\* The two statements of cleanup, in program order.
CleanupStages == << "ssh_tunnel", "pod" >>

\* (mutation of AdvanceStage: cleanup returns after its first statement)
AdvanceStageReturning ==
    cl_stage' = cl_stage /\ cl_pc' = "returned"

\* the statement after the current one, or the return of cleanup
AdvanceStage ==
    IF cl_stage < Len(CleanupStages)
    THEN cl_stage' = cl_stage + 1 /\ cl_pc' = "stage"
    ELSE cl_stage' = cl_stage /\ cl_pc' = "returned"

\* What the body of the loop of stop_all does to one process:
\*   terminated        terminate(), and wait(timeout=5) returns
\*   killed            terminate(), wait raises TimeoutExpired, kill()
\*   kill_after_error  terminate() or wait raises an Exception, kill()
\*   survived          as before, and kill() raises too (swallowed)
\*   already_exited    the process had exited: terminate() sends nothing
StopOutcomes(state) ==
    IF state = "alive"
    THEN {"terminated", "killed", "kill_after_error", "survived"}
    ELSE {"already_exited"}

CallsOf(outcome) ==
    IF outcome \in {"terminated", "already_exited"} THEN {"terminate"}
    ELSE {"terminate", "kill"}

StateAfter(outcome) == IF outcome = "survived" THEN "alive" ELSE "exited"

\* cleanup() is called by cmd_deploy (a failure branch, or the finally block)
Cleanup_Enter ==
    /\ cl_pc = "idle"
    /\ cl_pc' = "stage"
    /\ cl_stage' = 1
    /\ UNCHANGED << processes, proc_state, proc_calls, cl_i, in_handler,
                    handlers_installed, signals, terminate_result, events >>
    /\ UNCHANGED << request_vars, manager_vars, provider_vars, calls, deploy_vars >>
    /\ UNCHANGED lifecycle_vars

\* if _ssh_tunnel: _ssh_tunnel.stop_all() ...
\* stop_all returns at once when no process is tracked.
Cleanup_StageTunnel ==
    /\ cl_pc = "stage"
    /\ CleanupStages[cl_stage] = "ssh_tunnel"
    /\ IF ~g_ssh_tunnel
       THEN /\ AdvanceStage
            /\ events' = Append(events, "no_tunnel")
            /\ UNCHANGED cl_i
       ELSE IF processes = << >>
       THEN /\ cl_pc' = "tunnel_unset"
            /\ events' = Append(events, "stop_all")
            /\ UNCHANGED << cl_stage, cl_i >>
       ELSE /\ cl_pc' = "stop_loop"
            /\ cl_i' = 0
            /\ UNCHANGED << cl_stage, events >>
    /\ UNCHANGED << processes, proc_state, proc_calls, in_handler, handlers_installed,
                    signals, terminate_result >>
    /\ UNCHANGED << request_vars, manager_vars, provider_vars, calls, deploy_vars >>
    /\ UNCHANGED lifecycle_vars

\* for process in self.processes: terminate, wait, kill
StopAll_Process ==
    /\ cl_pc = "stop_loop"
    /\ cl_i < Len(processes)
    /\ LET p == processes[cl_i + 1] IN
       \E o \in StopOutcomes(proc_state[p]) :
         /\ proc_state' = [proc_state EXCEPT ![p] = StateAfter(o)]
         /\ proc_calls' = [proc_calls EXCEPT ![p] = @ \cup CallsOf(o)]
    /\ cl_i' = cl_i + 1
    /\ UNCHANGED << processes, cl_pc, cl_stage, in_handler, handlers_installed,
                    signals, terminate_result, events >>
    /\ UNCHANGED << request_vars, manager_vars, provider_vars, calls, deploy_vars >>
    /\ UNCHANGED lifecycle_vars

\* (mutation of AfterStopAll: only the processes that were stopped are dropped)
AfterStopAllKeepingAlive(procs) == SelectSeq(procs, LAMBDA q : proc_state[q] = "alive")

\* self.processes.clear()
AfterStopAll(procs) == << >>

\* self.processes.clear(), and stop_all returns
StopAll_Clear ==
    /\ cl_pc = "stop_loop"
    /\ cl_i = Len(processes)
    /\ processes' = AfterStopAll(processes)
    /\ cl_pc' = "tunnel_unset"
    /\ events' = Append(events, "stop_all")
    /\ UNCHANGED << proc_state, proc_calls, cl_stage, cl_i, in_handler,
                    handlers_installed, signals, terminate_result >>
    /\ UNCHANGED << request_vars, manager_vars, provider_vars, calls, deploy_vars >>
    /\ UNCHANGED lifecycle_vars

\* _ssh_tunnel = None
Cleanup_UnsetTunnel ==
    /\ cl_pc = "tunnel_unset"
    /\ g_ssh_tunnel' = FALSE
    /\ AdvanceStage
    /\ UNCHANGED << processes, proc_state, proc_calls, cl_i, in_handler,
                    handlers_installed, signals, terminate_result, events >>
    /\ UNCHANGED << request_vars, manager_vars, provider_vars, calls, deploy_locals,
                    g_pod_manager, g_current_pod_id >>
    /\ UNCHANGED lifecycle_vars

\* if _pod_manager and _current_pod_id: _pod_manager.terminate_pod(_current_pod_id)
Cleanup_StagePod ==
    /\ cl_pc = "stage"
    /\ CleanupStages[cl_stage] = "pod"
    /\ IF g_pod_manager /\ g_current_pod_id # None
       THEN /\ EnterTerminatePod(g_current_pod_id)
            /\ cl_pc' = "pod_request"
            /\ events' = Append(events, "delete")
            /\ UNCHANGED cl_stage
       ELSE /\ AdvanceStage
            /\ UNCHANGED << request_vars, call_pods, events >>
    /\ UNCHANGED << processes, proc_state, proc_calls, cl_i, in_handler,
                    handlers_installed, signals, terminate_result >>
    /\ UNCHANGED << manager_vars, remote_pods, resp_bodies, provider_accepts, calls,
                    deploy_vars >>
    /\ UNCHANGED lifecycle_vars

\* _current_pod_id = None
Cleanup_UnsetPod ==
    /\ cl_pc = "pod_unset"
    /\ g_current_pod_id' = None
    /\ AdvanceStage
    /\ UNCHANGED << processes, proc_state, proc_calls, cl_i, in_handler,
                    handlers_installed, signals, terminate_result, events >>
    /\ UNCHANGED << request_vars, manager_vars, provider_vars, calls, deploy_locals,
                    g_pod_manager, g_ssh_tunnel >>
    /\ UNCHANGED lifecycle_vars

\* The code that a signal interrupts never resumes: the handler ends with
\* sys.exit(0), and no except clause of cleanup, stop_all, terminate_pod or
\* _request catches SystemExit.  A request that was being made is abandoned.
AbandonRequest ==
    /\ rq_pc' = "idle"
    /\ rq_caller' = "none"
    /\ rq_method' = "none"
    /\ rq_target' = None
    /\ attempt' = 0
    /\ rq_log' = << >>
    /\ sleeps' = << >>
    /\ rq_result' = NoResult

\* The handler runs inside the call it interrupts.  When that call is
\* _request waiting in session.request, the request has been sent and its
\* connection stays open while the handler runs: sys.exit(0) unwinds the
\* interrupted frames only after cleanup() has returned.  Inside _request
\* the signal may also arrive before the request is sent or during a sleep.
SuspendedAfter(n, pc) == IF pc = "attempt" THEN {n, n + 1} ELSE {n}

\* SIGINT or SIGTERM with the handler installed: signal_handler calls cleanup()
Cleanup_Signal ==
    /\ handlers_installed
    /\ signals < MaxSignals
    /\ cl_pc # "exited"
    /\ signals' = signals + 1
    /\ in_handler' = TRUE
    /\ cl_pc' = "stage"
    /\ cl_stage' = 1
    /\ AbandonRequest
    /\ suspended_requests' \in SuspendedAfter(suspended_requests, rq_pc)
    /\ UNCHANGED << processes, proc_state, proc_calls, cl_i, handlers_installed,
                    terminate_result, events >>
    /\ UNCHANGED << manager_vars, provider_vars, calls, deploy_vars >>
    /\ UNCHANGED << wait_vars, terminate_vars, tunnel_vars, selector_vars >>

\* ... then sys.exit(0)
Cleanup_HandlerExit ==
    /\ in_handler
    /\ cl_pc = "returned"
    /\ cl_pc' = "exited"
    /\ UNCHANGED << processes, proc_state, proc_calls, cl_stage, cl_i, in_handler,
                    handlers_installed, signals, terminate_result, events >>
    /\ UNCHANGED << request_vars, manager_vars, provider_vars, calls, deploy_vars >>
    /\ UNCHANGED lifecycle_vars

\* SIGINT while cleanup runs without the handler installed: KeyboardInterrupt
\* is raised inside cleanup, which no except clause there catches (they catch
\* Exception), so the rest of cleanup does not run.
Cleanup_KeyboardInterrupt ==
    /\ ~handlers_installed
    /\ signals < MaxSignals
    /\ cl_pc \notin {"idle", "returned", "aborted", "exited"}
    /\ signals' = signals + 1
    /\ cl_pc' = "aborted"
    /\ AbandonRequest
    /\ UNCHANGED << processes, proc_state, proc_calls, cl_stage, cl_i, in_handler,
                    handlers_installed, terminate_result, events >>
    /\ UNCHANGED << manager_vars, provider_vars, calls, deploy_vars >>
    /\ UNCHANGED lifecycle_vars

----------------------------------------------------------------------------
(* api_client.py: _query_graphql and the SSH port fallback *)

\* the public port the GraphQL document lists for private port 22/tcp of the pod
GqlPort == 40022

\* The body of a 200 answer to the GraphQL POST: whether it decodes as JSON,
\* the "errors" key of the document (absent, present with an empty array, or
\* present with a non-empty array), and the port the document lists for the
\* pod (None: the pod, its runtime or its port 22/tcp is missing).
GraphqlBodies ==
    [json : {TRUE}, errors : {"absent", "empty", "nonempty"}, port : {None, GqlPort}]
    \cup [json : {FALSE}, errors : {"absent"}, port : {None}]

NoGraphqlBody == [json |-> FALSE, errors |-> "absent", port |-> None]

\* what session.post(GRAPHQL_URL, ...) can give: an answer, or an exception
GraphqlOutcomes ==
    { [kind |-> "response", status |-> 200, body |-> b] : b \in GraphqlBodies }
    \cup { [kind |-> "response", status |-> s, body |-> NoGraphqlBody] :
             s \in ErrorStatuses \cup {429} }
    \cup { [kind |-> "exception", status |-> 0, body |-> NoGraphqlBody] }

\* (mutation of HasErrorsKey: the errors of the document are never looked at)
HasErrorsKeyIgnored(body) == FALSE

\* "errors" in data
HasErrorsKey(body) == body.errors # "absent"

\* _query_graphql on the answer g to its one POST.  A raised error carries the
\* status of the answer it is raised for.
QueryGraphql(g) ==
    IF g.kind = "exception" THEN Raised("RequestException", 0, 0)
    ELSE IF g.status # 200 THEN Raised("RuntimeError", g.status, 0)
    ELSE IF ~g.body.json THEN Raised("JSONDecodeError", g.status, 0)
    ELSE IF HasErrorsKey(g.body) THEN Raised("RuntimeError", g.status, 0)
    ELSE Returned(g.body.port)

\* get_pod_ssh_port_from_graphql: the port found in the document, None when
\* there is none or when anything raised
SshPortFromGraphql(result) ==
    IF result.kind = "return" THEN result.value ELSE None

----------------------------------------------------------------------------
(* pod_manager.py: wait_for_running *)

timeout == 600

poll_interval == 5

\* the port the REST port map gives for key "22"
RestPort == 10022

\* a value of the port map for key "22" that int() rejects
BadPort == -2

PodStatuses == {"RUNNING", "EXITED", "TERMINATED", "CREATED", "PENDING"}

\* A pod snapshot as _parse_pod builds it from the JSON of GET /pods/{id}:
\* desiredStatus, whether publicIp is present, and portMappings["22"]
\* (None: the map is missing, empty or lacks the key).
Snapshots ==
    [desired_status : PodStatuses, public_ip : BOOLEAN,
     port22 : {None, RestPort, BadPort}]

\* the local variable pod before the first assignment
UnboundPod == [desired_status |-> "unbound", public_ip |-> FALSE, port22 |-> None]

\* Pod.ssh_port: int(port) if port else None; int() raises on a bad value
SshPortRaises(pod) == pod.port22 = BadPort

SshPortOf(pod) == pod.port22

\* truthiness of an Optional[int]
Truthy(port) == port # None

\* (mutation of ReadyGate: the desired status is not looked at)
ReadyGateAnyStatus(pod) == pod.public_ip

\* if pod.desired_status == "RUNNING" and pod.public_ip:
ReadyGate(pod) == pod.desired_status = "RUNNING" /\ pod.public_ip

\* if ssh_port and pod.public_ip:
Resolved(pod, ssh_port) == Truthy(ssh_port) /\ pod.public_ip

\* (mutation of TerminalStatuses: CREATED is not among them)
TerminalStatusesWithoutCreated == {"EXITED", "TERMINATED"}

\* if pod.desired_status in ["EXITED", "TERMINATED", "CREATED"]:
TerminalStatuses == {"EXITED", "TERMINATED", "CREATED"}

\* (mutation of OnPollException: the exception leaves wait_for_running)
OnPollExceptionRaise == "raise"

\* except Exception as e: progress.update(...), then the sleep
OnPollException == "continue"

WaitReturned(success, pod, ssh_port, why) ==
    [kind |-> "return", success |-> success, pod |-> pod, ssh_port |-> ssh_port,
     why |-> why]

WaitRaised == [kind |-> "raise", success |-> FALSE, pod |-> UnboundPod,
               ssh_port |-> None, why |-> "exception"]

NoWaitResult == [kind |-> "none", success |-> FALSE, pod |-> UnboundPod,
                 ssh_port |-> None, why |-> "none"]

\* The rest of the loop body once no readiness was found for pod: the check
\* of the terminal statuses, then the status message (which reads
\* pod.ssh_port when a public IP is present), then the sleep.
\* Gives the next position, how the iteration went, and the result.
AfterReadiness(pod, ssh_port) ==
    IF pod.desired_status \in TerminalStatuses
    THEN [pc |-> "done", cur |-> "terminal",
          result |-> WaitReturned(FALSE, pod, ssh_port, "terminal")]
    ELSE IF pod.public_ip /\ SshPortRaises(pod)
    THEN [pc |-> IF OnPollException = "continue" THEN "sleep" ELSE "done",
          cur |-> "error",
          result |-> IF OnPollException = "continue" THEN NoWaitResult ELSE WaitRaised]
    ELSE [pc |-> "sleep", cur |-> "not_ready", result |-> NoWaitResult]

\* The loop body on a fetched snapshot, up to the GraphQL fallback.
OnSnapshot(pod) ==
    IF ReadyGate(pod)
    THEN IF SshPortRaises(pod)
         THEN [pc |-> IF OnPollException = "continue" THEN "sleep" ELSE "done",
               cur |-> "error", ssh_port |-> None,
               result |-> IF OnPollException = "continue" THEN NoWaitResult
                          ELSE WaitRaised]
         ELSE IF ~Truthy(SshPortOf(pod))
         THEN [pc |-> "fallback", cur |-> "pending", ssh_port |-> None,
               result |-> NoWaitResult]
         ELSE IF Resolved(pod, SshPortOf(pod))
         THEN [pc |-> "done", cur |-> "ready", ssh_port |-> SshPortOf(pod),
               result |-> WaitReturned(TRUE, pod, SshPortOf(pod), "ready")]
         ELSE LET rest == AfterReadiness(pod, SshPortOf(pod))
              IN  [pc |-> rest.pc, cur |-> rest.cur, ssh_port |-> SshPortOf(pod),
                   result |-> rest.result]
    ELSE LET rest == AfterReadiness(pod, None)
         IN  [pc |-> rest.pc, cur |-> rest.cur, ssh_port |-> None,
              result |-> rest.result]

\* success, result = _pod_manager.wait_for_running(pod.id)
Wait_Call ==
    /\ wt_pc = "idle"
    /\ rq_pc \in {"idle", "done"}
    /\ wt_pc' = "test"
    /\ elapsed' = 0
    /\ wt_pod' = UnboundPod
    /\ wt_ssh_port' = None
    /\ wt_cur' = "none"
    /\ wt_prev' = "none"
    /\ wait_result' = NoWaitResult
    /\ gq_log' = << >>
    /\ gq_result' = NoResult
    /\ UNCHANGED << request_vars, manager_vars, provider_vars, calls, deploy_vars,
                    cleanup_vars, terminate_vars >>
    /\ UNCHANGED tool_vars

\* while time.time() - start_time < timeout: ... pod = get_pod(pod_id);
\* after the loop: return False, None
Wait_LoopTest ==
    /\ wt_pc = "test"
    /\ IF elapsed < timeout
       THEN /\ EnterRequest("get_pod", "GET", 1)
            /\ wt_pc' = "fetch"
            /\ wt_prev' = wt_cur
            /\ wt_cur' = "pending"
            /\ gq_log' = << >>
            /\ gq_result' = NoResult
            /\ UNCHANGED wait_result
       ELSE /\ wt_pc' = "done"
            /\ wait_result' = WaitReturned(FALSE, UnboundPod, None, "timeout")
            /\ UNCHANGED << request_vars, call_pods, wt_prev, wt_cur, gq_log,
                            gq_result >>
    /\ UNCHANGED << elapsed, wt_pod, wt_ssh_port >>
    /\ UNCHANGED << manager_vars, remote_pods, resp_bodies, provider_accepts, calls,
                    deploy_vars, cleanup_vars, terminate_vars >>
    /\ UNCHANGED tool_vars

\* get_pod returns self._parse_pod(response), or raises what _request raised,
\* or AttributeError when the response is None; then the body of the loop.
Wait_GetPodReturn ==
    /\ wt_pc = "fetch"
    /\ rq_pc = "done"
    /\ rq_caller = "get_pod"
    /\ rq_caller' = "none"
    /\ IF rq_result.kind # "return" \/ rq_result.value = None
       THEN /\ wt_cur' = "error"
            /\ wt_pc' = IF OnPollException = "continue" THEN "sleep" ELSE "done"
            /\ wait_result' = IF OnPollException = "continue" THEN NoWaitResult
                              ELSE WaitRaised
            /\ UNCHANGED << wt_pod, wt_ssh_port >>
       ELSE \E pod \in Snapshots :
              LET step == OnSnapshot(pod) IN
              /\ wt_pod' = pod
              /\ wt_ssh_port' = step.ssh_port
              /\ wt_cur' = step.cur
              /\ wt_pc' = step.pc
              /\ wait_result' = step.result
    /\ UNCHANGED << rq_pc, rq_method, rq_target, attempt, rq_log, sleeps, rq_result >>
    /\ UNCHANGED << elapsed, wt_prev, gq_log, gq_result >>
    /\ UNCHANGED << manager_vars, provider_vars, calls, deploy_vars, cleanup_vars,
                    terminate_vars >>
    /\ UNCHANGED tool_vars

\* ssh_port = self.api_client.get_pod_ssh_port_from_graphql(pod_id), and the
\* rest of the loop body
Wait_Fallback ==
    /\ wt_pc = "fallback"
    /\ \E g \in GraphqlOutcomes :
         LET result == QueryGraphql(g)
             ssh_port == SshPortFromGraphql(result)
             rest == AfterReadiness(wt_pod, ssh_port)
         IN  /\ gq_log' = Append(gq_log, g)
             /\ gq_result' = result
             /\ wt_ssh_port' = ssh_port
             /\ IF Resolved(wt_pod, ssh_port)
                THEN /\ wt_pc' = "done"
                     /\ wt_cur' = "ready"
                     /\ wait_result' = WaitReturned(TRUE, wt_pod, ssh_port, "ready")
                ELSE /\ wt_pc' = rest.pc
                     /\ wt_cur' = rest.cur
                     /\ wait_result' = rest.result
    /\ UNCHANGED << elapsed, wt_pod, wt_prev >>
    /\ UNCHANGED << request_vars, manager_vars, provider_vars, calls, deploy_vars,
                    cleanup_vars, terminate_vars >>
    /\ UNCHANGED tool_vars

\* The time one iteration takes: time.sleep(poll_interval), and the requests
\* of the iteration, which take from no time to about 95 seconds (three
\* attempts with timeout=30 and the delays between them).
SleepDurations == {poll_interval, poll_interval + 95}

Wait_Sleep ==
    /\ wt_pc = "sleep"
    /\ \E d \in SleepDurations :
         elapsed' = IF elapsed + d < timeout THEN elapsed + d ELSE timeout
    /\ wt_pc' = "test"
    /\ UNCHANGED << wt_pod, wt_ssh_port, wt_cur, wt_prev, wait_result, gq_log,
                    gq_result >>
    /\ UNCHANGED << request_vars, manager_vars, provider_vars, calls, deploy_vars,
                    cleanup_vars, terminate_vars >>
    /\ UNCHANGED tool_vars

\* (mutation of ElapsedAfter: the clock does not advance)
ElapsedAfterFrozen(e, d) == e

\* time.time() - start_time after an iteration that took d seconds; values
\* beyond the timeout are not told apart
ElapsedAfter(e, d) == IF e + d < timeout THEN e + d ELSE timeout

\* Iterations whose requests are slow: get_pod uses its three attempts of up
\* to 30 seconds, and the GraphQL post up to 30 seconds more.
SlowIterations == {poll_interval + 95, poll_interval + 125}

\* time.sleep(poll_interval) at the end of a slow iteration
Wait_SleepSlow ==
    /\ wt_pc = "sleep"
    /\ \E d \in SlowIterations : elapsed' = ElapsedAfter(elapsed, d)
    /\ wt_pc' = "test"
    /\ UNCHANGED << wt_pod, wt_ssh_port, wt_cur, wt_prev, wait_result, gq_log,
                    gq_result >>
    /\ UNCHANGED << request_vars, manager_vars, provider_vars, calls, deploy_vars,
                    cleanup_vars, terminate_vars >>
    /\ UNCHANGED tool_vars

----------------------------------------------------------------------------
(* pod_manager.py: terminate_pod and terminate_all_pods, called directly *)

MaxTerminates == 2

MaxListed == 2

PodIds == 1..MaxListed

\* the provider answered some DELETE of the call in progress with a success
DeleteAcknowledged == \E j \in 1..Len(rq_log) : rq_log[j].kind = "response"
                                               /\ rq_log[j].status < 400

\* one terminate_pod call as it ended: its argument, its target, the manager's
\* active id before and after, whether a delete was acknowledged by the
\* provider, and the value returned
TerminateRecord(arg, target, before, after, acked, success) ==
    [arg |-> arg, target |-> target, before |-> before, after |-> after,
     acked |-> acked, success |-> success]

\* pod_manager.terminate_pod(pod_id) is called: target_id = pod_id or
\* self.current_pod_id; without a target it returns True at once.
Terminate_Call ==
    /\ rq_pc \in {"idle", "done"}
    /\ rq_caller = "none"
    /\ ta_pc \in {"idle", "done"}
    /\ Len(tp_log) < MaxTerminates
    /\ \E pod_id \in {None} \cup PodIds :
         LET target == IF pod_id # None THEN pod_id ELSE current_pod_id IN
         IF target = None
         THEN /\ tp_log' = Append(tp_log, TerminateRecord(pod_id, None, current_pod_id,
                                                         current_pod_id, FALSE, TRUE))
              /\ UNCHANGED << request_vars, call_pods, tp_arg, tp_before >>
         ELSE /\ EnterTerminatePod(pod_id)
              /\ tp_arg' = pod_id
              /\ tp_before' = current_pod_id
              /\ UNCHANGED tp_log
    /\ UNCHANGED << ta_pc, ta_listing, ta_running, ta_i, ta_deletes, ta_terminated,
                    ta_result >>
    /\ UNCHANGED << manager_vars, remote_pods, resp_bodies, provider_accepts, calls,
                    deploy_vars, cleanup_vars, wait_vars >>
    /\ UNCHANGED tool_vars

\* success = self.api_client.terminate_pod(target_id); if success: ...
Terminate_Return ==
    /\ rq_pc = "done"
    /\ rq_caller = "terminate_pod"
    /\ cl_pc = "idle"
    /\ rq_caller' = "none"
    /\ LET success == ApiTerminateSucceeds(rq_result)
           after == ActiveIdAfter(success, rq_target, current_pod_id)
       IN  /\ current_pod_id' = after
           /\ tp_log' = Append(tp_log, TerminateRecord(tp_arg, rq_target, tp_before,
                                                      after, DeleteAcknowledged,
                                                      success))
    /\ UNCHANGED << rq_pc, rq_method, rq_target, attempt, rq_log, sleeps, rq_result >>
    /\ UNCHANGED << tp_arg, tp_before, ta_pc, ta_listing, ta_running, ta_i, ta_deletes,
                    ta_terminated, ta_result >>
    /\ UNCHANGED << create_result, provider_vars, calls, deploy_vars, cleanup_vars,
                    wait_vars >>
    /\ UNCHANGED tool_vars

\* The lists GET /pods may answer: pod j of the list has id j.
Listings ==
    UNION { [1..n -> [id : PodIds, desired_status : {"RUNNING", "EXITED"}]] :
              n \in 0..MaxListed }

IsListing(l) == \A j \in 1..Len(l) : l[j].id = j

\* p.desired_status == "RUNNING"
IsRunning(pod) == pod.desired_status = "RUNNING"

\* terminate_all_pods: running_pods = self.get_running_pods()
\*   -> self.api_client.get_pods() -> _request("GET", "/pods")
TerminateAll_Call ==
    /\ rq_pc \in {"idle", "done"}
    /\ rq_caller = "none"
    /\ ta_pc = "idle"
    /\ EnterRequest("get_pods", "GET", None)
    /\ ta_pc' = "listing"
    /\ UNCHANGED << tp_arg, tp_before, tp_log, ta_listing, ta_running, ta_i, ta_deletes,
                    ta_terminated, ta_result >>
    /\ UNCHANGED << manager_vars, remote_pods, resp_bodies, provider_accepts, calls,
                    deploy_vars, cleanup_vars, wait_vars >>
    /\ UNCHANGED tool_vars

\* get_running_pods: the pods of the list whose desired status is RUNNING;
\* the empty list when get_pods raised (also TypeError on a None response).
TerminateAll_Listed ==
    /\ ta_pc = "listing"
    /\ rq_pc = "done"
    /\ rq_caller = "get_pods"
    /\ rq_caller' = "none"
    /\ IF rq_result.kind # "return" \/ rq_result.value = None
       THEN /\ ta_listing' = << >>
            /\ ta_running' = << >>
       ELSE \E l \in Listings :
              /\ IsListing(l)
              /\ ta_listing' = l
              /\ ta_running' = SelectSeq(l, IsRunning)
    /\ ta_pc' = "loop"
    /\ ta_i' = 0
    /\ ta_terminated' = 0
    /\ ta_deletes' = << >>
    /\ UNCHANGED << rq_pc, rq_method, rq_target, attempt, rq_log, sleeps, rq_result >>
    /\ UNCHANGED << tp_arg, tp_before, tp_log, ta_result >>
    /\ UNCHANGED << manager_vars, provider_vars, calls, deploy_vars, cleanup_vars,
                    wait_vars >>
    /\ UNCHANGED tool_vars

\* for pod in running_pods: if self.api_client.terminate_pod(pod.id): ...
\* and after the loop: return terminated
TerminateAll_Next ==
    /\ ta_pc = "loop"
    /\ IF ta_i < Len(ta_running)
       THEN /\ EnterRequest("terminate_all", "DELETE", ta_running[ta_i + 1].id)
            /\ ta_pc' = "delete"
            /\ UNCHANGED ta_result
       ELSE /\ ta_pc' = "done"
            /\ ta_result' = ta_terminated
            /\ UNCHANGED << request_vars, call_pods >>
    /\ UNCHANGED << tp_arg, tp_before, tp_log, ta_listing, ta_running, ta_i, ta_deletes,
                    ta_terminated >>
    /\ UNCHANGED << manager_vars, remote_pods, resp_bodies, provider_accepts, calls,
                    deploy_vars, cleanup_vars, wait_vars >>
    /\ UNCHANGED tool_vars

\* terminated += 1 when the delete succeeded
CountAfterDelete(terminated, success) ==
    IF success THEN terminated + 1 ELSE terminated

TerminateAll_DeleteReturn ==
    /\ ta_pc = "delete"
    /\ rq_pc = "done"
    /\ rq_caller = "terminate_all"
    /\ rq_caller' = "none"
    /\ LET success == ApiTerminateSucceeds(rq_result) IN
       /\ ta_deletes' = Append(ta_deletes, [id |-> rq_target, success |-> success,
                                            acked |-> DeleteAcknowledged])
       /\ ta_terminated' = CountAfterDelete(ta_terminated, success)
    /\ ta_i' = ta_i + 1
    /\ ta_pc' = "loop"
    /\ UNCHANGED << rq_pc, rq_method, rq_target, attempt, rq_log, sleeps, rq_result >>
    /\ UNCHANGED << tp_arg, tp_before, tp_log, ta_listing, ta_running, ta_result >>
    /\ UNCHANGED << manager_vars, provider_vars, calls, deploy_vars, cleanup_vars,
                    wait_vars >>
    /\ UNCHANGED tool_vars

----------------------------------------------------------------------------
(* ssh_tunnel.py: start_tunnels and stop_all, called directly *)

MaxTunnelCalls == 3

\* what detect_local_ip() may return
LocalIps == {"0.0.0.0", "127.0.0.1"}

\* the local ports of self.tunnels
TunnelPorts == {8880, 8881, 2222}

cleanup_rest == << cl_pc, cl_stage, in_handler, handlers_installed, signals,
                  terminate_result, events >>

tunnel_frame == << request_vars, manager_vars, provider_vars, calls, deploy_vars,
                  cleanup_rest, wait_vars, terminate_vars, selector_vars,
                  suspended_requests >>

NoStartResult == [kind |-> "none", success |-> FALSE, message |-> "none",
                  addr |-> "none"]

\* return success, message, local_ip or bind_addr
StartReturned(success, message, addr) ==
    [kind |-> "return", success |-> success, message |-> message, addr |-> addr]

\* (mutation of KeyMissing: the key is not looked at)
KeyMissingNever(key) == FALSE

\* if not self.ssh_key_path:
KeyMissing(key) == ~key

\* self.processes.append(process)
TrackedAfterLaunch(procs, p) == Append(procs, p)

\* (mutation of PortsReady: one listening port is enough)
PortsReadyAny(failed) == failed # TunnelPorts

\* ports_ready: no connect_ex gave a result other than 0
PortsReady(failed) == failed = {}

\* What _create_tunnel_with_key does: Popen raises (no process), the process
\* has exited when it is polled after 3 seconds (RuntimeError), or the
\* process is returned.
LaunchOutcomes == {"popen_raises", "exited_immediately", "started"}

\* The probes of one attempt: the ports whose connect_ex failed, or an
\* exception raised while probing (socket.socket() failing).
ProbeOutcomes ==
    { [raised |-> FALSE, failed |-> f] : f \in SUBSET TunnelPorts }
    \cup { [raised |-> TRUE, failed |-> {}] }

\* the next process the operating system creates
FreshProc == Cardinality({q \in ProcIds : proc_state[q] # "none"}) + 1

\* what follows the return of stop_all
AfterStop(ret) ==
    IF ret = "attempt"
    THEN st_pc' = "launch" /\ st_i' = st_i + 1
    ELSE st_pc' = "stop_returned" /\ UNCHANGED st_i

\* self.stop_all(): returns at once when nothing is tracked
CallStopAll(ret) ==
    /\ st_stop' = [tracked |-> processes, done |-> processes = << >>,
                    state_before |-> proc_state, calls_before |-> proc_calls]
    /\ st_ret' = ret
    /\ cl_i' = 0
    /\ IF processes = << >>
       THEN AfterStop(ret)
       ELSE st_pc' = "stop_loop" /\ UNCHANGED st_i

\* self.stop_all(); continue
FailAttempt == CallStopAll("attempt")

\* tunnel.start_tunnels() is called: detect_local_ip(), the key check, and
\* the list of bind addresses
Tunnel_StartCall ==
    /\ st_pc \in {"idle", "start_returned", "stop_returned"}
    /\ st_calls < MaxTunnelCalls
    /\ st_calls' = st_calls + 1
    /\ \E ip \in LocalIps :
         /\ st_binds' = << ip, "127.0.0.1" >>
         /\ IF KeyMissing(st_key)
            THEN /\ st_pc' = "start_returned"
                 /\ st_i' = 0
                 /\ st_result' = StartReturned(FALSE, "key_not_found", ip)
            ELSE /\ st_pc' = "launch"
                 /\ st_i' = 1
                 /\ st_result' = NoStartResult
    /\ st_before' = processes
    /\ st_launched' = {}
    /\ st_log' = << >>
    /\ st_proc' = 0
    /\ UNCHANGED << st_key, st_ret, st_stop, processes, proc_state, proc_calls, cl_i >>
    /\ UNCHANGED tunnel_frame

\* for bind_addr in [local_ip, "127.0.0.1"]: process =
\* self._create_tunnel_with_key(ssh_cmd); self.processes.append(process);
\* after the loop: return False
Tunnel_Launch ==
    /\ st_pc = "launch"
    /\ IF st_i > Len(st_binds)
       THEN /\ st_pc' = "start_returned"
            /\ st_result' = StartReturned(FALSE, "failed", st_binds[1])
            /\ UNCHANGED << st_i, st_proc, st_ret, st_launched, st_log, st_stop,
                            processes, proc_state, cl_i >>
       ELSE \E o \in LaunchOutcomes :
              /\ o # "popen_raises" => FreshProc \in ProcIds
              /\ LET p == IF o = "popen_raises" THEN 0 ELSE FreshProc IN
                 /\ st_proc' = p
                 /\ st_log' = Append(st_log,
                        [addr |-> st_binds[st_i], proc |-> p, launch |-> o,
                         alive |-> o = "started", probed |-> FALSE, failed |-> {},
                         raised |-> o # "started"])
                 /\ st_launched' = IF p # 0 THEN st_launched \cup {p} ELSE st_launched
                 /\ proc_state' = IF p = 0 THEN proc_state
                                  ELSE [proc_state EXCEPT
                                          ![p] = IF o = "started" THEN "alive"
                                                 ELSE "exited"]
                 /\ IF o = "started"
                    THEN /\ processes' = TrackedAfterLaunch(processes, p)
                         /\ st_pc' = "verify"
                         /\ UNCHANGED << st_i, st_ret, st_stop, cl_i >>
                    ELSE /\ FailAttempt
                         /\ UNCHANGED processes
              /\ UNCHANGED st_result
    /\ UNCHANGED << st_key, st_binds, st_before, st_calls, proc_calls >>
    /\ UNCHANGED tunnel_frame

\* KeyboardInterrupt during the time.sleep(3) of _create_tunnel_with_key:
\* Popen has started the process, which is neither returned nor appended.
\* The except clauses there and in start_tunnels catch Exception, which
\* KeyboardInterrupt is not, so it leaves start_tunnels.
Tunnel_LaunchInterrupted ==
    /\ st_pc = "launch"
    /\ st_i <= Len(st_binds)
    /\ FreshProc \in ProcIds
    /\ st_pc' = "interrupted"
    /\ st_proc' = FreshProc
    /\ st_launched' = st_launched \cup {FreshProc}
    /\ proc_state' = [proc_state EXCEPT ![FreshProc] = "alive"]
    /\ st_log' = Append(st_log,
           [addr |-> st_binds[st_i], proc |-> FreshProc, launch |-> "interrupted",
            alive |-> TRUE, probed |-> FALSE, failed |-> {}, raised |-> TRUE])
    /\ UNCHANGED << st_key, st_binds, st_i, st_ret, st_before, st_result, st_stop,
                    st_calls, processes, proc_calls, cl_i >>
    /\ UNCHANGED tunnel_frame

\* time.sleep(2); if process.poll() is not None: self.stop_all(); continue
Tunnel_Verify ==
    /\ st_pc = "verify"
    /\ \E alive \in BOOLEAN :
         /\ proc_state' = [proc_state EXCEPT
                             ![st_proc] = IF alive THEN "alive" ELSE "exited"]
         /\ st_log' = [st_log EXCEPT ![Len(st_log)].alive = alive]
         /\ IF alive
            THEN /\ st_pc' = "probe"
                 /\ UNCHANGED << st_i, st_ret, st_stop, cl_i >>
            ELSE FailAttempt
    /\ UNCHANGED << st_key, st_binds, st_proc, st_before, st_launched, st_result,
                    st_calls, processes, proc_calls >>
    /\ UNCHANGED tunnel_frame

\* the connect_ex probe of the three local ports, then return True or
\* self.stop_all(); continue
Tunnel_Probe ==
    /\ st_pc = "probe"
    /\ \E o \in ProbeOutcomes :
         /\ st_log' = [st_log EXCEPT ![Len(st_log)].probed = TRUE,
                                     ![Len(st_log)].failed = o.failed,
                                     ![Len(st_log)].raised = o.raised]
         /\ IF ~o.raised /\ PortsReady(o.failed)
            THEN /\ st_pc' = "start_returned"
                 /\ st_result' = StartReturned(TRUE, "created", st_binds[st_i])
                 /\ UNCHANGED << st_i, st_ret, st_stop, cl_i >>
            ELSE /\ FailAttempt
                 /\ UNCHANGED st_result
    /\ UNCHANGED << st_key, st_binds, st_proc, st_before, st_launched, st_calls,
                    processes, proc_state, proc_calls >>
    /\ UNCHANGED tunnel_frame

\* tunnel.stop_all() is called
Tunnel_StopCall ==
    /\ st_pc \in {"idle", "start_returned", "stop_returned"}
    /\ st_calls < MaxTunnelCalls
    /\ st_calls' = st_calls + 1
    /\ CallStopAll("stop_call")
    /\ UNCHANGED << st_key, st_binds, st_proc, st_before, st_launched, st_log,
                    st_result, processes, proc_state, proc_calls >>
    /\ UNCHANGED tunnel_frame

\* for process in self.processes: terminate, wait, kill
Tunnel_StopProcess ==
    /\ st_pc = "stop_loop"
    /\ cl_i < Len(processes)
    /\ LET p == processes[cl_i + 1] IN
       \E o \in StopOutcomes(proc_state[p]) :
         /\ proc_state' = [proc_state EXCEPT ![p] = StateAfter(o)]
         /\ proc_calls' = [proc_calls EXCEPT ![p] = @ \cup CallsOf(o)]
    /\ cl_i' = cl_i + 1
    /\ UNCHANGED << st_pc, st_key, st_binds, st_i, st_proc, st_ret, st_before,
                    st_launched, st_log, st_result, st_stop, st_calls, processes >>
    /\ UNCHANGED tunnel_frame

\* self.processes.clear(), and stop_all returns
Tunnel_StopClear ==
    /\ st_pc = "stop_loop"
    /\ cl_i = Len(processes)
    /\ processes' = AfterStopAll(processes)
    /\ st_stop' = [st_stop EXCEPT !.done = TRUE]
    /\ AfterStop(st_ret)
    /\ UNCHANGED << st_key, st_binds, st_proc, st_ret, st_before, st_launched, st_log,
                    st_result, st_calls, proc_state, proc_calls, cl_i >>
    /\ UNCHANGED tunnel_frame

----------------------------------------------------------------------------
(* main.py: cmd_deploy after wait_for_running *)

\* the keyword arguments of the call at main.py:177-182
DeploySSHTunnelKwargs == {"pod_ip", "ssh_port", "ssh_key_path", "password"}

\* the parameters of SSHTunnel.__init__ (ssh_tunnel.py:16-22)
SSHTunnelInitParams == {"pod_ip", "ssh_port", "username", "ssh_key_path"}

\* What cmd_deploy does with (success, result) of wait_for_running, up to the
\* construction of the tunnel object: what it prints, whether it calls
\* cleanup(), how it goes on, and the port it hands to SSHTunnel.
DeployAfterWait(w) ==
    IF ~w.success
    THEN [report |-> "Pod failed to start", cleanup |-> TRUE, next |-> "return 1",
          ssh_port |-> None]
    ELSE IF w.pod = UnboundPod
    THEN [report |-> "Pod status unavailable", cleanup |-> TRUE, next |-> "return 1",
          ssh_port |-> None]
    ELSE IF ~w.pod.public_ip \/ ~Truthy(SshPortOf(w.pod))
    THEN [report |-> "Pod missing IP or SSH port", cleanup |-> TRUE,
          next |-> "return 1", ssh_port |-> None]
    ELSE IF ~CallBinds(DeploySSHTunnelKwargs, SSHTunnelInitParams)
    THEN [report |-> "TypeError", cleanup |-> FALSE, next |-> "raise",
          ssh_port |-> None]
    ELSE [report |-> "Pod is running!", cleanup |-> FALSE, next |-> "start_tunnels",
          ssh_port |-> SshPortOf(w.pod)]

----------------------------------------------------------------------------
(* Initial states of the components *)

\* no _request call in progress
InitIdleRequest ==
    /\ rq_pc = "idle"
    /\ rq_caller = "none"
    /\ rq_method = "none"
    /\ rq_target = None
    /\ attempt = 0
    /\ rq_log = << >>
    /\ sleeps = << >>
    /\ rq_result = NoResult

\* PodManager.__init__
InitManager ==
    /\ create_result = NoResult
    /\ current_pod_id = None

\* main.py's module globals before any command runs
InitGlobals ==
    /\ g_pod_manager = FALSE
    /\ g_current_pod_id = None
    /\ g_ssh_tunnel = FALSE

\* cmd_deploy has not started
InitDeployLocals ==
    /\ dp_pc = "start"
    /\ cloud_type = "SECURE"
    /\ is_spot = FALSE
    /\ max_cost = 0
    /\ min_vram_gb = 0
    /\ gpu_types = << >>
    /\ candidates = << >>
    /\ cand_i = 0
    /\ create_attempts = << >>
    /\ exit_code = -1

\* no tunnel object, and cleanup not running
InitNoCleanup ==
    /\ processes = << >>
    /\ proc_state = [p \in ProcIds |-> "none"]
    /\ proc_calls = [p \in ProcIds |-> {}]
    /\ cl_pc = "idle"
    /\ cl_stage = 1
    /\ cl_i = 0
    /\ in_handler = FALSE
    /\ handlers_installed = FALSE
    /\ signals = 0
    /\ terminate_result = "none"
    /\ events = << >>

\* wait_for_running has not been called
InitWaitIdle ==
    /\ wt_pc = "idle"
    /\ elapsed = 0
    /\ wt_pod = UnboundPod
    /\ wt_ssh_port = None
    /\ wt_cur = "none"
    /\ wt_prev = "none"
    /\ wait_result = NoWaitResult
    /\ gq_log = << >>
    /\ gq_result = NoResult

\* neither terminate_pod nor terminate_all_pods has been called
InitTerminateIdle ==
    /\ tp_arg = None
    /\ tp_before = None
    /\ tp_log = << >>
    /\ ta_pc = "idle"
    /\ ta_listing = << >>
    /\ ta_running = << >>
    /\ ta_i = 0
    /\ ta_deletes = << >>
    /\ ta_terminated = 0
    /\ ta_result = -1

\* start_tunnels and stop_all have not been called
InitTunnelIdle ==
    /\ st_pc = "idle"
    /\ st_binds = << >>
    /\ st_i = 0
    /\ st_proc = 0
    /\ st_ret = "none"
    /\ st_before = << >>
    /\ st_launched = {}
    /\ st_log = << >>
    /\ st_result = NoStartResult
    /\ st_stop = [tracked |-> << >>, done |-> FALSE,
                   state_before |-> [p \in ProcIds |-> "none"],
                   calls_before |-> [p \in ProcIds |-> {}]]
    /\ st_calls = 0

\* no selector function has been applied
InitSelectorIdle ==
    /\ sel_pc = "idle"
    /\ sel_in = NoSelectorInput
    /\ sel_all = << >>
    /\ sel_best = NoSelectorResult

\* the components that a specification does not exercise
InitToolsIdle ==
    /\ InitTunnelIdle
    /\ st_key = FALSE
    /\ InitSelectorIdle
    /\ suspended_requests = 0

InitRequest ==
    /\ InitToolsIdle
    /\ InitWaitIdle
    /\ InitTerminateIdle
    /\ InitIdleRequest
    /\ InitManager
    /\ InitGlobals
    /\ InitDeployLocals
    /\ InitNoCleanup
    /\ remote_pods = {}
    /\ call_pods = {}
    /\ resp_bodies = Bodies
    /\ provider_accepts = {}
    /\ calls = 0

NextRequest ==
    \/ CallRequest
    \/ CallCreatePod
    \/ RequestAttempt
    \/ RequestExhausted
    \/ CreatePodReturn

SpecRequest == InitRequest /\ [][NextRequest]_vars

\* _request called directly, with GET and DELETE
NextRetry ==
    \/ CallRequest
    \/ RequestAttempt
    \/ RequestExhausted

\* _request runs in the calling thread: session.request is given timeout=30
\* and time.sleep returns, so a loop iteration that can be made is made.
SpecRetryFair ==
    /\ InitRequest
    /\ [][NextRetry]_vars
    /\ WF_vars(RequestAttempt)
    /\ WF_vars(RequestExhausted)

InitDeploy ==
    /\ InitToolsIdle
    /\ InitWaitIdle
    /\ InitTerminateIdle
    /\ InitIdleRequest
    /\ InitManager
    /\ InitGlobals
    /\ InitDeployLocals
    /\ InitNoCleanup
    /\ remote_pods = {}
    /\ call_pods = {}
    /\ resp_bodies = {NoBody}
    /\ provider_accepts \in SUBSET (1..MaxOffers)
    /\ calls = 0

NextDeploy ==
    \/ Deploy_LoadConfig
    \/ Deploy_FetchGpuTypes
    \/ Deploy_SelectCandidates
    \/ Deploy_TryCandidate
    \/ Deploy_Interrupt

SpecDeploy == InitDeploy /\ [][NextDeploy]_vars

\* The states in which cleanup can be entered: the tunnel object, if any, tracks
\* processes 1..n, each alive or exited by itself; an active pod id, if any, was
\* recorded by a pod manager, whose own active id is that id or was cleared;
\* the pod may still exist at the provider.
InitCleanup ==
    /\ InitToolsIdle
    /\ InitWaitIdle
    /\ InitTerminateIdle
    /\ InitIdleRequest
    /\ InitDeployLocals
    /\ create_result = NoResult
    /\ g_ssh_tunnel \in BOOLEAN
    /\ \E n \in 0..MaxProcs :
          /\ ~g_ssh_tunnel => n = 0
          /\ processes = [j \in 1..n |-> j]
          /\ proc_state \in [ProcIds -> {"none", "alive", "exited"}]
          /\ \A p \in ProcIds : proc_state[p] = "none" <=> p > n
    /\ proc_calls = [p \in ProcIds |-> {}]
    /\ g_pod_manager \in BOOLEAN
    /\ g_current_pod_id \in {None, 1}
    /\ g_current_pod_id # None => g_pod_manager
    /\ current_pod_id \in {None, g_current_pod_id}
    /\ remote_pods \in SUBSET ({g_current_pod_id} \ {None})
    /\ call_pods = {}
    /\ resp_bodies = {NoBody}
    /\ provider_accepts = {}
    /\ calls = 0
    /\ cl_pc = "idle"
    /\ cl_stage = 1
    /\ cl_i = 0
    /\ in_handler = FALSE
    /\ handlers_installed \in BOOLEAN
    /\ signals = 0
    /\ terminate_result = "none"
    /\ events = << >>

NextCleanup ==
    \/ Cleanup_Enter
    \/ Cleanup_StageTunnel
    \/ StopAll_Process
    \/ StopAll_Clear
    \/ Cleanup_UnsetTunnel
    \/ Cleanup_StagePod
    \/ RequestAttempt
    \/ RequestExhausted
    \/ TerminatePodReturn
    \/ Cleanup_UnsetPod
    \/ Cleanup_Signal
    \/ Cleanup_HandlerExit
    \/ Cleanup_KeyboardInterrupt

SpecCleanup == InitCleanup /\ [][NextCleanup]_vars

\* wait_for_running(pod_id) called on a pod manager for pod 1, which exists
InitWait ==
    /\ InitToolsIdle
    /\ InitWaitIdle
    /\ InitTerminateIdle
    /\ InitIdleRequest
    /\ InitManager
    /\ InitGlobals
    /\ InitDeployLocals
    /\ InitNoCleanup
    /\ remote_pods = {1}
    /\ call_pods = {}
    /\ resp_bodies = {NoBody}
    /\ provider_accepts = {}
    /\ calls = 0

NextWait ==
    \/ Wait_Call
    \/ Wait_LoopTest
    \/ RequestAttempt
    \/ RequestExhausted
    \/ Wait_GetPodReturn
    \/ Wait_Fallback
    \/ Wait_Sleep

SpecWait == InitWait /\ [][NextWait]_vars

\* wait_for_running runs in the calling thread: the loop test, get_pod (its
\* requests have timeout=30), the GraphQL post (timeout of its own) and
\* time.sleep(poll_interval) each end, so a step that can be taken is taken.
NextWaitSlow ==
    \/ Wait_Call
    \/ Wait_LoopTest
    \/ RequestAttempt
    \/ RequestExhausted
    \/ Wait_GetPodReturn
    \/ Wait_Fallback
    \/ Wait_SleepSlow

SpecWaitFair ==
    /\ InitWait
    /\ [][NextWaitSlow]_vars
    /\ WF_vars(Wait_LoopTest)
    /\ WF_vars(RequestAttempt)
    /\ WF_vars(RequestExhausted)
    /\ WF_vars(Wait_GetPodReturn)
    /\ WF_vars(Wait_Fallback)
    /\ WF_vars(Wait_SleepSlow)

\* A pod manager whose active id is unset or is pod 1 (set by create_pod), and
\* a provider at which some of the pods exist.
InitTerminate ==
    /\ InitToolsIdle
    /\ InitWaitIdle
    /\ InitTerminateIdle
    /\ InitIdleRequest
    /\ InitGlobals
    /\ InitDeployLocals
    /\ InitNoCleanup
    /\ create_result = NoResult
    /\ current_pod_id \in {None, 1}
    /\ remote_pods \in SUBSET PodIds
    /\ call_pods = {}
    /\ resp_bodies = {NoBody}
    /\ provider_accepts = {}
    /\ calls = 0

NextTerminate ==
    \/ Terminate_Call
    \/ Terminate_Return
    \/ TerminateAll_Call
    \/ TerminateAll_Listed
    \/ TerminateAll_Next
    \/ TerminateAll_DeleteReturn
    \/ RequestAttempt
    \/ RequestExhausted

SpecTerminate == InitTerminate /\ [][NextTerminate]_vars

\* An SSHTunnel object as its constructor leaves it: a key path found or
\* not, no process tracked.
InitTunnel ==
    /\ suspended_requests = 0
    /\ InitTunnelIdle
    /\ st_key \in BOOLEAN
    /\ InitSelectorIdle
    /\ InitWaitIdle
    /\ InitTerminateIdle
    /\ InitIdleRequest
    /\ InitManager
    /\ InitGlobals
    /\ InitDeployLocals
    /\ InitNoCleanup
    /\ remote_pods = {}
    /\ call_pods = {}
    /\ resp_bodies = {NoBody}
    /\ provider_accepts = {}
    /\ calls = 0

\* The arguments of one application of a selector function.
InitSelector ==
    /\ suspended_requests = 0
    /\ sel_pc = "idle"
    /\ sel_in \in SelectorInputs
    /\ sel_all = << >>
    /\ sel_best = NoSelectorResult
    /\ InitTunnelIdle
    /\ st_key = FALSE
    /\ InitWaitIdle
    /\ InitTerminateIdle
    /\ InitIdleRequest
    /\ InitManager
    /\ InitGlobals
    /\ InitDeployLocals
    /\ InitNoCleanup
    /\ remote_pods = {}
    /\ call_pods = {}
    /\ resp_bodies = {NoBody}
    /\ provider_accepts = {}
    /\ calls = 0

NextSelector ==
    \/ Select_All
    \/ Select_Optimal

SpecSelector == InitSelector /\ [][NextSelector]_vars

NextTunnel ==
    \/ Tunnel_StartCall
    \/ Tunnel_Launch
    \/ Tunnel_LaunchInterrupted
    \/ Tunnel_Verify
    \/ Tunnel_Probe
    \/ Tunnel_StopCall
    \/ Tunnel_StopProcess
    \/ Tunnel_StopClear

SpecTunnel == InitTunnel /\ [][NextTunnel]_vars

----------------------------------------------------------------------------
(* Properties of _request and of pod creation (SpecRequest) *)

IsSuccess(r) == r.kind = "response" /\ r.status < 400

IsHttpError(r) == r.kind = "response" /\ r.status >= 400

IndicatesCapacity(r) == r.body.marker # "none"

RateLimitSleeps == SelectSeq(sleeps, LAMBDA s : s.why = "rate_limit")

CreateEnded == rq_caller = "none" /\ create_result.kind # "none"

\* C5: each call to create causes exactly one remote pod to be created,
\* whatever failures and retries happen inside the call: when the call has
\* returned a pod, the pods the provider created during the call are exactly
\* that pod, and when it has raised, the provider created none.
C5_ExactlyOnePodPerCreate ==
    CreateEnded =>
        IF create_result.kind = "return"
        THEN call_pods = {create_result.value}
        ELSE call_pods = {}

\* C8 as stated: whenever an attempt is answered by an HTTP error (any status
\* from 400 up, 429 included) whose body indicates that no instances are
\* available, _request raises NoInstancesAvailableError on that very attempt:
\* it is the last HTTP request of the call and no sleep follows it.
C8_CapacityRaisesAtOnce_Original ==
    \A i \in 1..Len(rq_log) :
        (IsHttpError(rq_log[i]) /\ IndicatesCapacity(rq_log[i])) =>
            /\ i = Len(rq_log)
            /\ rq_pc = "done"
            /\ rq_result.kind = "NoInstancesAvailableError"
            /\ Len(sleeps) = i - 1

\* C8 (amended): whenever an attempt is answered by an HTTP error with a
\* status other than 429 whose body indicates that no instances are
\* available, _request raises NoInstancesAvailableError on that very attempt,
\* whatever the attempt index: it is the last HTTP request of the call and no
\* sleep follows it.
C8_CapacityRaisesAtOnce ==
    \A i \in 1..Len(rq_log) :
        (IsHttpError(rq_log[i]) /\ rq_log[i].status # 429 /\ IndicatesCapacity(rq_log[i])) =>
            /\ i = Len(rq_log)
            /\ rq_pc = "done"
            /\ rq_result.kind = "NoInstancesAvailableError"
            /\ Len(sleeps) = i - 1

\* a capacity error written with capitals answered the last attempt of the
\* budget, after two retried attempts, and ended the call
C8_Witness ==
    /\ rq_pc = "done"
    /\ Len(rq_log) = retry_count
    /\ rq_log[retry_count].status = 500
    /\ rq_log[retry_count].body.marker = "mixed"
    /\ rq_result.kind = "NoInstancesAvailableError"

\* The call ended, exactly one attempt was answered 429, and the attempt right
\* after it was answered with a success: i is the position of the 429.
OneRateLimitThenSuccess(i) ==
    /\ rq_pc = "done"
    /\ i \in 1..(Len(rq_log) - 1)
    /\ rq_log[i].kind = "response" /\ rq_log[i].status = 429
    /\ \A j \in 1..Len(rq_log) :
          (rq_log[j].kind = "response" /\ rq_log[j].status = 429) => j = i
    /\ IsSuccess(rq_log[i + 1])

\* C9 as stated: a 429 followed by a success on the next attempt results in
\* exactly one backoff sleep, of 2 seconds, and the call returns the success
\* body instead of raising.
C9_OneBackoffOfTwoSeconds_Original ==
    \A i \in 1..retry_count :
        OneRateLimitThenSuccess(i) =>
            /\ Len(RateLimitSleeps) = 1
            /\ RateLimitSleeps[1].secs = 2
            /\ rq_result = Returned(JsonOf(rq_log[i + 1]))

\* C9 (amended): a 429 followed by a success on the next attempt results in
\* exactly one backoff sleep, of 2^a seconds where a is the zero-based index
\* of the attempt answered 429 (1 second for the first attempt, 2 seconds
\* for the second), and the call returns the success body instead of raising.
C9_OneBackoffThenSuccess ==
    \A i \in 1..retry_count :
        OneRateLimitThenSuccess(i) =>
            /\ Len(RateLimitSleeps) = 1
            /\ RateLimitSleeps[1].secs = 2 ^ (i - 1)
            /\ Len(rq_log) = i + 1
            /\ rq_result = Returned(JsonOf(rq_log[i + 1]))

\* the first attempt was answered 429 and the second with a success
C9_Witness ==
    /\ OneRateLimitThenSuccess(1)
    /\ Len(rq_log) = 2
    /\ rq_result.kind = "return"

\* The call made all retry_count HTTP requests, none was answered with a
\* success, and the last answer was not a capacity error.
BudgetExhausted ==
    /\ rq_pc = "done"
    /\ Len(rq_log) = retry_count
    /\ \A j \in 1..retry_count : ~IsSuccess(rq_log[j])
    /\ ~(IsHttpError(rq_log[retry_count]) /\ rq_log[retry_count].status # 429
         /\ IndicatesCapacity(rq_log[retry_count]))

\* C10: whenever _request exhausts its retry budget for a cause other than
\* capacity exhaustion (every attempt answered 429 included), it raises a
\* terminal error that carries the HTTP status and the truncated body of the
\* last response, and returns no value.
C10_ExhaustionRaisesWithStatus ==
    BudgetExhausted =>
        /\ rq_result.kind = "RuntimeError"
        /\ rq_log[retry_count].kind = "response"
        /\ rq_result.status = rq_log[retry_count].status
        /\ rq_result.body = Truncate(rq_log[retry_count].body.len, 200)

----------------------------------------------------------------------------
(* Properties of cmd_deploy (SpecDeploy) *)

\* the provider has an instance for candidate k and none for the earlier ones
FirstAccepted(k) ==
    /\ k \in 1..Len(candidates)
    /\ candidates[k].gpu_type_id \in provider_accepts
    /\ \A j \in 1..(k - 1) : candidates[j].gpu_type_id \notin provider_accepts

\* C4: when the provider accepts pod creation for some candidate, all earlier
\* candidates being capacity-exhausted, cmd_deploy records the returned pod id
\* as the active pod, stops trying candidates and goes on to wait_for_running:
\* it does not return from the creation loop with no active pod.
C4_AcceptedCreationProceeds ==
    (dp_pc = "exit" /\ \E k \in 1..Len(candidates) : FirstAccepted(k)) =>
        /\ g_current_pod_id # None
        /\ current_pod_id = g_current_pod_id

\* C6: candidates are attempted strictly in the order returned by the selector
\* (ascending price): attempt number k is for candidate k of the list, it
\* happens only after the attempt before it ended with the capacity-exhausted
\* error, and an attempt that ends with any other error is the last one and
\* ends the run with exit code 1.
C6_CandidateOrdering ==
    /\ \A k \in 1..(Len(candidates) - 1) :
          candidates[k].cost_per_hour <= candidates[k + 1].cost_per_hour
    /\ Len(create_attempts) <= Len(candidates)
    /\ \A k \in 1..Len(create_attempts) :
          /\ create_attempts[k].index = k - 1
          /\ create_attempts[k].gpu = candidates[k].gpu_type_id
          /\ k > 1 => create_attempts[k - 1].outcome = "NoInstancesAvailableError"
          /\ create_attempts[k].outcome \notin {"created", "NoInstancesAvailableError"} =>
                /\ k = Len(create_attempts)
                /\ dp_pc = "exit"
                /\ exit_code = 1

\* two candidates were selected, the attempt for the first ended with an error
\* other than capacity exhaustion, and the run ended without trying the second
C6_Witness ==
    /\ Len(candidates) = 2
    /\ Len(create_attempts) = 1
    /\ create_attempts[1].outcome \notin {"created", "NoInstancesAvailableError"}
    /\ dp_pc = "exit"
    /\ exit_code = 1

\* C7: when the provider is capacity-exhausted for candidate k, the attempt
\* for it ends with the capacity-exhausted error after exactly one HTTP
\* request and the orchestrator attempts the next candidate of the list if
\* there is one; when every candidate is capacity-exhausted the run ends with
\* exit code 1 and no active pod.
C7_CapacityExhaustedAdvances ==
    dp_pc = "exit" =>
        /\ \A k \in 1..Len(create_attempts) :
              candidates[k].gpu_type_id \notin provider_accepts =>
                 /\ create_attempts[k].outcome = "NoInstancesAvailableError"
                 /\ create_attempts[k].http = 1
                 /\ k < Len(candidates) => Len(create_attempts) > k
        /\ (\A k \in 1..Len(candidates) : candidates[k].gpu_type_id \notin provider_accepts)
              => exit_code = 1 /\ g_current_pod_id = None

----------------------------------------------------------------------------
(* Properties of cleanup (SpecCleanup) *)

\* a delete request for the active pod has been issued and its call has not
\* returned to cleanup yet
DeleteInProgress == rq_caller = "terminate_pod" /\ rq_pc \in {"attempt", "done"}

TrackedAlive == {j \in 1..Len(processes) : proc_state[processes[j]] = "alive"}

\* C3: in every execution of the cleanup path, the delete request for the
\* active pod is issued only after stop_all on the tunnel session has completed
\* (or there was no tunnel session to stop), and no tracked tunnel process is
\* alive while the pod is being terminated.
C3_StopAllBeforeDelete ==
    /\ \A k \in 1..Len(events) :
          events[k] = "delete" =>
             \E j \in 1..(k - 1) : events[j] \in {"stop_all", "no_tunnel"}
    /\ DeleteInProgress => TrackedAlive = {}

\* cleanup found a tunnel whose two tracked processes were alive, stop_all
\* signalled both and cleared the list, and the delete for the pod is under way
C3_Witness ==
    /\ DeleteInProgress
    /\ events = << "stop_all", "delete" >>
    /\ \A p \in 1..2 : "terminate" \in proc_calls[p]
    /\ proc_state[1] = "exited"
    /\ processes = << >>

----------------------------------------------------------------------------
(* Properties of _request: terminal API errors (SpecRequest) *)

\* an HTTP error answer that is neither a 429 nor a capacity refusal
IsTerminalApiError(r) == IsHttpError(r) /\ r.status # 429 /\ ~IndicatesCapacity(r)

\* C11: when the provider answers a request with a non-429, non-capacity HTTP
\* error status, _request surfaces that status and body to the caller after
\* that single request: the answer is the last one of the call, no sleep
\* follows it, and the call ends with an error carrying its status and body.
C11_TerminalErrorNotRetried ==
    \A i \in 1..Len(rq_log) :
        IsTerminalApiError(rq_log[i]) =>
            /\ Len(rq_log) = i
            /\ Len(sleeps) < i
            /\ rq_pc = "done"
            /\ rq_result.kind = "RuntimeError"
            /\ rq_result.status = rq_log[i].status
            /\ rq_result.body = Truncate(rq_log[i].body.len, 200)

----------------------------------------------------------------------------
(* Properties of _query_graphql and wait_for_running (SpecWait) *)

GraphqlAnswered200(errors) ==
    /\ gq_log # << >>
    /\ gq_log[Len(gq_log)].kind = "response"
    /\ gq_log[Len(gq_log)].status = 200
    /\ gq_log[Len(gq_log)].body.json
    /\ gq_log[Len(gq_log)].body.errors = errors

WaitSucceeded == wait_result.kind = "return" /\ wait_result.success

\* C13: wait_for_running returns success only in an iteration whose own fetch
\* returned a snapshot, with that snapshot, which has desired status RUNNING
\* and a public IP, and for which an SSH port was resolved in that iteration,
\* from the REST port map or from the GraphQL fallback.
C13_ReadinessCondition ==
    WaitSucceeded =>
        /\ rq_result = Returned(Json)
        /\ wt_cur = "ready"
        /\ wait_result.pod = wt_pod
        /\ wt_pod.desired_status = "RUNNING"
        /\ wt_pod.public_ip
        /\ wait_result.ssh_port # None
        /\ \/ (wt_pod.port22 = wait_result.ssh_port /\ gq_log = << >>)
           \/ (wt_pod.port22 = None /\ gq_result = Returned(wait_result.ssh_port))

C13_Witness ==
    /\ WaitSucceeded
    /\ wt_prev = "not_ready"
    /\ wait_result.pod.desired_status = "RUNNING"
    /\ wait_result.ssh_port = RestPort

\* the fallback of this iteration found port p for a snapshot without key "22"
ResolvedByFallback(p) ==
    /\ wt_pod.port22 = None
    /\ gq_result = Returned(p)
    /\ p # None

\* C14: if the snapshot's port map lacks key "22" and the GraphQL fallback
\* returns port p, the pod is ready with resolved port p: cmd_deploy hands p
\* to the tunnel object and goes on to start the tunnels; if the fallback
\* returns nothing either, the iteration is not ready and polling goes on
\* without raising.
C14_FallbackPortIsUsed ==
    /\ \A p \in {GqlPort} :
          (WaitSucceeded /\ ResolvedByFallback(p)) =>
              /\ DeployAfterWait(wait_result).next = "start_tunnels"
              /\ DeployAfterWait(wait_result).ssh_port = p
    /\ (gq_log # << >> /\ SshPortFromGraphql(gq_result) = None) =>
          /\ wt_cur = "not_ready"
          /\ wait_result.kind # "raise"
          /\ ~wait_result.success

\* C15: in the first iteration whose snapshot has desired status EXITED,
\* TERMINATED or CREATED, wait_for_running returns failure with that snapshot
\* in that same iteration: it does not sleep or test the timeout again.
C15_TerminalStatusFailsAtOnce ==
    wt_pod.desired_status \in {"EXITED", "TERMINATED", "CREATED"} =>
        /\ wt_pc = "done"
        /\ wt_cur = "terminal"
        /\ wait_result.kind = "return"
        /\ ~wait_result.success
        /\ wait_result.pod = wt_pod

C15_Witness ==
    /\ wt_pc = "done"
    /\ wt_pod.desired_status = "CREATED"
    /\ wt_prev = "not_ready"
    /\ elapsed < timeout
    /\ ~wait_result.success

\* C16: when the timeout elapses first, wait_for_running returns a failure
\* without a pod, and what the pod manager returns and what cmd_deploy
\* reports for it differ from what they are for a terminal status.
C16_TimeoutReportedDistinctly ==
    (wt_pc = "done" /\ wait_result.why = "timeout") =>
        /\ wait_result.kind = "return"
        /\ ~wait_result.success
        /\ wait_result.pod = UnboundPod
        /\ \A pod \in Snapshots :
              pod.desired_status \in TerminalStatuses =>
                  /\ wait_result.pod # pod
                  /\ DeployAfterWait(wait_result)
                        # DeployAfterWait(WaitReturned(FALSE, pod, None, "terminal"))

\* C17: an exception raised inside one poll iteration is swallowed: the
\* iteration counts as not ready, the loop goes on to its sleep and its next
\* test of the timeout, and wait_for_running never raises.
C17_PollErrorsSwallowed ==
    /\ wait_result.kind # "raise"
    /\ wt_cur = "error" =>
          \/ wt_pc \in {"sleep", "test"} /\ wait_result.kind = "none"
          \/ wt_pc = "done" /\ wait_result.why = "timeout"

C17_Witness ==
    /\ wt_prev = "error"
    /\ wt_cur = "ready"
    /\ WaitSucceeded

----------------------------------------------------------------------------
(* Properties of terminate_pod and terminate_all_pods (SpecTerminate) *)

\* C18: terminate_pod called twice on the same id, the second time on a pod
\* that the first call terminated, does not raise and the second call
\* returns success.
C18_TerminateIdempotent ==
    \A i \in 1..Len(tp_log) : \A j \in 1..Len(tp_log) :
        (i < j /\ tp_log[i].target # None /\ tp_log[i].acked
               /\ tp_log[j].target = tp_log[i].target) =>
            tp_log[j].success

\* C19: terminate_pod targets the given id, or the active id when none is
\* given; after a delete that the provider acknowledged the active id is
\* cleared if and only if it equalled the target, and after a delete that
\* failed the active id is unchanged.
C19_ActiveIdAfterTerminate ==
    \A i \in 1..Len(tp_log) :
        LET e == tp_log[i] IN
        /\ e.target = (IF e.arg # None THEN e.arg ELSE e.before)
        /\ e.acked => e.after = (IF e.before = e.target THEN None ELSE e.before)
        /\ (e.target # None /\ ~e.acked) => e.after = e.before

\* C20: terminate_all_pods issues a delete for every listed pod whose desired
\* status is RUNNING and for no other pod, a failing delete does not stop the
\* deletes for the remaining pods, and it returns the number of deletes that
\* succeeded.
C20_TerminateAllCounts ==
    ta_pc = "done" =>
        /\ [j \in 1..Len(ta_deletes) |-> ta_deletes[j].id]
             = [j \in 1..Len(ta_running) |-> ta_running[j].id]
        /\ \A j \in 1..Len(ta_listing) :
              ta_listing[j].desired_status = "RUNNING"
                  <=> \E k \in 1..Len(ta_deletes) : ta_deletes[k].id = ta_listing[j].id
        /\ ta_result = Cardinality({k \in 1..Len(ta_deletes) : ta_deletes[k].acked})

----------------------------------------------------------------------------
(* SSHTunnel *)

StartSucceeded == st_pc = "start_returned" /\ st_result.success

StartFailed == st_pc = "start_returned" /\ ~st_result.success

Tracked(procs) == { procs[k] : k \in 1..Len(procs) }

\* C21: after every successful start_tunnels call exactly one forwarding
\* process is alive and tracked; after every failed call no process launched
\* by that call is alive and the tracked set is empty.
C21_ProcessAccounting ==
    /\ StartSucceeded =>
         /\ Len(processes) = 1
         /\ proc_state[processes[1]] = "alive"
    /\ StartFailed =>
         /\ processes = << >>
         /\ \A p \in st_launched : proc_state[p] # "alive"

C23_MissingKeyFailsAtOnce ==
    (st_pc \notin {"idle", "stop_returned", "stop_loop"} /\ ~st_key) =>
      /\ StartFailed
      /\ st_result.message = "key_not_found"
      /\ st_launched = {}
      /\ st_log = << >>
      /\ processes = << >>
      /\ \A p \in ProcIds : proc_state[p] = "none"

C23_Witness == StartFailed /\ ~st_key /\ st_result.message = "key_not_found"

\* C24: after any call of stop_all the tracked set is empty, also when
\* signalling a process raised; terminate (or kill) has been called on every
\* process that was tracked; and stop_all with nothing tracked changes nothing
\* and returns.
C24_StopAllRepeatable ==
    /\ (st_pc = "stop_returned" \/ (st_pc = "launch" /\ st_i > 1)) =>
         /\ st_stop.done
         /\ processes = << >>
         /\ \A p \in Tracked(st_stop.tracked) :
              proc_calls[p] \cap {"terminate", "kill"} # {}
    /\ (st_pc = "stop_returned" /\ st_stop.tracked = << >>) =>
         /\ st_stop.done
         /\ proc_state = st_stop.state_before
         /\ proc_calls = st_stop.calls_before

C24_Witness ==
    /\ st_pc = "stop_returned"
    /\ st_stop.tracked # << >>
    /\ proc_state[st_stop.tracked[1]] = "alive"
    /\ "kill" \in proc_calls[st_stop.tracked[1]]

----------------------------------------------------------------------------
(* main.py: the module globals *)

CleanupHasRun == cl_pc \in {"returned", "exited"}

\* C25: there is at most one active pod identifier and at most one active
\* tunnel session in every reachable state, and once cleanup has run (called
\* by cmd_deploy or by the signal handler) both are empty.
C25_GlobalsEmptyAfterCleanup ==
    /\ g_ssh_tunnel \in BOOLEAN
    /\ g_current_pod_id \in PodIds \cup {None}
    /\ CleanupHasRun => (~g_ssh_tunnel /\ g_current_pod_id = None)

C25_Witness ==
    /\ cl_pc = "exited"
    /\ "stop_all" \in Tracked(events)
    /\ "delete" \in Tracked(events)
    /\ ~g_ssh_tunnel
    /\ g_current_pod_id = None

----------------------------------------------------------------------------
(* main.py: exit codes of cmd_deploy *)

\* C26: cmd_deploy ends with 0 exactly when the tunnels were established and
\* the run ended by a graceful stop, and with 1 on every configuration,
\* selection, creation, readiness or tunnel failure; no such failure ends
\* with 0 or with an uncaught exception.  (No run of cmd_deploy establishes
\* tunnels, so every return is the return of a failure.)
C26_ExitCodes ==
    /\ dp_pc = "exit" => exit_code = 1
    /\ dp_pc # "raised"

----------------------------------------------------------------------------
(* gpu_selector.py *)

\* the requested tier is one the offer is available in
Supports(g) ==
    \/ sel_in.ct = "SECURE" /\ g.secure_cloud
    \/ sel_in.ct = "COMMUNITY" /\ g.community_cloud

\* the price field for the requested tier and spot flag
ExpectedPrice(g) ==
    CASE sel_in.ct = "SECURE" /\ ~sel_in.spot -> g.secure_price
      [] sel_in.ct = "SECURE" /\ sel_in.spot -> g.secure_spot_price
      [] sel_in.ct = "COMMUNITY" /\ ~sel_in.spot -> g.community_price
      [] OTHER -> g.community_spot_price

Qualifies(g) ==
    /\ Supports(g)
    /\ g.memory_in_gb >= sel_in.vram
    /\ ExpectedPrice(g) # NoPrice
    /\ ExpectedPrice(g) <= sel_in.cost

OfferIds == 1..Len(sel_in.offers)

\* C27: every candidate returned by select_all_candidate_gpus comes from an
\* offer that supports the requested tier, has memory >= min VRAM and a
\* defined price <= max cost in the field matching tier and spot flag, and
\* the candidate's cost_per_hour is that price.
C27_SelectorSoundness ==
    sel_pc = "selected_all" =>
      \A k \in 1..Len(sel_all) :
        /\ sel_all[k].gpu_type_id \in OfferIds
        /\ LET g == sel_in.offers[sel_all[k].gpu_type_id] IN
             /\ Qualifies(g)
             /\ sel_all[k].cost_per_hour = ExpectedPrice(g)
             /\ sel_all[k].memory_gb = g.memory_in_gb

C27_Witness ==
    /\ sel_pc = "selected_all"
    /\ Len(sel_in.offers) = 3
    /\ Len(sel_all) = 1
    /\ sel_in.spot
    /\ \E j \in OfferIds : ~Supports(sel_in.offers[j])
    /\ \E j \in OfferIds : ExpectedPrice(sel_in.offers[j]) = NoPrice

\* C28: the candidate list is non-decreasing in cost_per_hour, and candidates
\* of equal price keep the relative order of their offers in the catalog.
C28_SelectorOrdering ==
    sel_pc = "selected_all" =>
      \A k, l \in 1..Len(sel_all) :
        k < l =>
          /\ sel_all[k].cost_per_hour <= sel_all[l].cost_per_hour
          /\ sel_all[k].cost_per_hour = sel_all[l].cost_per_hour =>
               sel_all[k].gpu_type_id < sel_all[l].gpu_type_id

C28_Witness ==
    /\ sel_pc = "selected_all"
    /\ Len(sel_all) = 3
    /\ sel_all[1].cost_per_hour = sel_all[2].cost_per_hour
    /\ sel_all[2].cost_per_hour < sel_all[3].cost_per_hour
    /\ sel_all[3].gpu_type_id = 1

\* offers A (16 GB, 0.20), B (24 GB, 0.40), C (40 GB, 0.60), min VRAM 16,
\* max cost 0.50, in cents
ExampleOffers ==
    /\ sel_in.vram = 16
    /\ sel_in.cost = 50
    /\ sel_in.ct = "SECURE"
    /\ ~sel_in.spot
    /\ Len(sel_in.offers) = 3
    /\ [j \in 1..3 |-> << sel_in.offers[j].memory_in_gb, sel_in.offers[j].secure_price >>]
         = << << 16, 20 >>, << 24, 40 >>, << 40, 60 >> >>

\* C29: every offer that passes the four filters appears exactly once among
\* the candidates; the offers A, B, C of the example yield A then B.
C29_SelectorCompleteness ==
    sel_pc = "selected_all" =>
      /\ \A j \in OfferIds :
           Qualifies(sel_in.offers[j]) =>
             Cardinality({k \in 1..Len(sel_all) : sel_all[k].gpu_type_id = j}) = 1
      /\ ExampleOffers =>
           [k \in 1..Len(sel_all) |-> sel_all[k].gpu_type_id] = << 1, 2 >>

C29_Witness ==
    /\ sel_pc = "selected_all"
    /\ ExampleOffers
    /\ Len(sel_all) = 2

Supporting == { j \in OfferIds : Supports(sel_in.offers[j]) }

MeetingVram == { j \in Supporting : sel_in.offers[j].memory_in_gb >= sel_in.vram }

Qualifying == { j \in OfferIds : Qualifies(sel_in.offers[j]) }

\* C30: select_optimal_gpu returns a diagnostic exactly when no offer
\* qualifies, then with no selection; the diagnostic is (a) no offer supports
\* the tier, else (b) no tier-supporting offer meets the VRAM floor, with the
\* largest VRAM among the tier-supporting offers, else (c) the cost ceiling.
C30_DiagnosticPriority ==
    sel_pc = "selected_optimal" =>
      /\ sel_best.diagnostic # "none" <=> Qualifying = {}
      /\ Qualifying = {} =>
           /\ sel_best.selection = << >>
           /\ Supporting = {} => sel_best.diagnostic = "no_gpus_in_cloud"
           /\ (Supporting # {} /\ MeetingVram = {}) =>
                /\ sel_best.diagnostic = "no_gpus_with_vram"
                /\ \E j \in Supporting :
                     sel_best.max_vram = sel_in.offers[j].memory_in_gb
                /\ \A j \in Supporting :
                     sel_in.offers[j].memory_in_gb <= sel_best.max_vram
           /\ MeetingVram # {} => sel_best.diagnostic = "no_gpus_under_cost"
      /\ Qualifying # {} => Len(sel_best.selection) = 1

C30_Witness ==
    /\ sel_pc = "selected_optimal"
    /\ sel_best.diagnostic = "no_gpus_with_vram"
    /\ sel_best.max_vram = 24
    /\ \E j \in OfferIds \ Supporting : sel_in.offers[j].memory_in_gb = 40
    /\ sel_in.vram = 40

\* the fallback list for the arguments select_optimal_gpu was applied to
FallbackList ==
    select_all_candidate_gpus(sel_in.offers, sel_in.vram, sel_in.cost, sel_in.ct,
                              sel_in.spot)

\* C31: select_optimal_gpu returns a selection exactly when
\* select_all_candidate_gpus returns a non-empty list for the same
\* arguments, and the selection is then the first element of that list.
C31_BestIsFirstOfAll ==
    sel_pc = "selected_optimal" =>
      /\ sel_best.selection # << >> <=> FallbackList # << >>
      /\ FallbackList # << >> => sel_best.selection = << FallbackList[1] >>

C31_Witness ==
    /\ sel_pc = "selected_optimal"
    /\ Len(FallbackList) = 3
    /\ FallbackList[1].cost_per_hour = FallbackList[2].cost_per_hour
    /\ FallbackList[2].cost_per_hour < FallbackList[3].cost_per_hour
    /\ sel_best.selection = << FallbackList[1] >>
    /\ FallbackList[1].gpu_type_id = 2

----------------------------------------------------------------------------
(* main.py: cleanup run more than once *)

Occurrences(seq, e) == Cardinality({k \in 1..Len(seq) : seq[k] = e})

\* C32: however many times cleanup runs in one run (a failure branch, the
\* signal handler followed by the finally block, a signal arriving while
\* cleanup is executing), the tracked tunnel processes are stopped and the
\* delete request for the active pod is issued at most once, and a later
\* invocation performs no further stop or delete.  Stated here for the
\* delete: terminate_pod is called for the active pod at most once.
C32_CleanupAtMostOnce ==
    Occurrences(events, "delete") <= 1

----------------------------------------------------------------------------
(* main.py: the signal handler and the requests of the interrupted code *)

\* a step in which _request performs one HTTP request
PerformsRequest == Len(rq_log') = Len(rq_log) + 1

\* C33: at most one HTTP request to the provider is in flight at any time,
\* also when the signal handler's cleanup interrupts code that is blocked in
\* an API call or inside cleanup: no request is performed while a request of
\* the interrupted code is still awaiting its response.
C33_NoOverlappingRequests ==
    [][PerformsRequest => suspended_requests = 0]_vars

----------------------------------------------------------------------------
(* SSHTunnel: tracking and bind addresses *)

\* C34: in every reachable state each forwarding process the tunnel manager
\* launched that is still alive is in the tracked set, so that stop_all
\* signals it; no exception or interrupt around the launch leaves a live
\* untracked process.
C34_EveryLiveProcessTracked ==
    \A p \in ProcIds : proc_state[p] = "alive" => p \in Tracked(processes)

\* C35: start_tunnels attempts the wildcard address and then the loopback
\* address, each distinct address at most once per call, launches at most
\* one process per attempt, and (having a key) returns failure only after
\* every bind address has been attempted and has failed.
C35_BindAddressSequence ==
    st_key =>
      /\ Len(st_log) <= 2
      /\ \A k \in 1..Len(st_log) : st_log[k].addr = << "0.0.0.0", "127.0.0.1" >>[k]
      /\ \A k, l \in 1..Len(st_log) : k # l => st_log[k].addr # st_log[l].addr
      /\ Cardinality(st_launched) <= Len(st_log)
      /\ StartFailed =>
           /\ { st_log[k].addr : k \in 1..Len(st_log) } = { "0.0.0.0", "127.0.0.1" }
           /\ \A k \in 1..Len(st_log) :
                \/ st_log[k].raised
                \/ ~st_log[k].alive
                \/ st_log[k].failed # {}

----------------------------------------------------------------------------
(* api_client.py: the retry budget of _request *)

\* the sleep that follows the j-th HTTP request of the call, if any
ExpectedSleep(j) ==
    IF rq_log[j].kind = "response" /\ rq_log[j].status = 429
    THEN << [why |-> "rate_limit", secs |-> 2 ^ (j - 1)] >>
    ELSE IF IsSuccess(rq_log[j]) THEN << >>
    ELSE IF rq_log[j].kind = "response" /\ IndicatesCapacity(rq_log[j]) THEN << >>
    ELSE IF j < 3 THEN << [why |-> "retry", secs |-> 1] >>
    ELSE << >>

RECURSIVE ExpectedSleeps(_)
ExpectedSleeps(n) ==
    IF n = 0 THEN << >> ELSE ExpectedSleeps(n - 1) \o ExpectedSleep(n)

RequestBudgetKept ==
    /\ Len(rq_log) <= 3
    /\ sleeps = ExpectedSleeps(Len(rq_log))

\* C36: every call of _request performs at most retry_count (3) HTTP
\* requests; each 429 answer uses one of them and is followed by a sleep of
\* 2^attempt seconds (attempt counted from 0); every other failed attempt
\* before the last is followed by a sleep of 1 second; and the call ends.
C36_BoundedRetryBudget ==
    /\ []RequestBudgetKept
    /\ (rq_pc = "attempt") ~> (rq_pc = "done")

C36_Witness ==
    /\ rq_pc = "done"
    /\ Len(rq_log) = 3
    /\ rq_log[1].kind = "response" /\ rq_log[1].status = 429
    /\ rq_log[2].kind = "exception"
    /\ rq_log[3].kind = "response" /\ rq_log[3].status = 429
    /\ sleeps = << [why |-> "rate_limit", secs |-> 1], [why |-> "retry", secs |-> 1],
                   [why |-> "rate_limit", secs |-> 4] >>

----------------------------------------------------------------------------
(* pod_manager.py: termination of wait_for_running *)

WaitRunning == wt_pc \notin {"idle", "done"}

\* success with the pod, failure with the pod (terminal status), or failure
\* without a pod (timeout)
WaitOutcome ==
    /\ wait_result.kind = "return"
    /\ \/ /\ wait_result.success
          /\ wait_result.pod = wt_pod
          /\ wait_result.pod # UnboundPod
          /\ elapsed < 600
       \/ /\ ~wait_result.success
          /\ wait_result.pod = wt_pod
          /\ wait_result.pod.desired_status \in {"EXITED", "TERMINATED", "CREATED"}
          /\ elapsed < 600
       \/ /\ ~wait_result.success
          /\ wait_result.pod = UnboundPod
          /\ elapsed >= 600

\* a step in which the loop starts a poll
StartsPoll == wt_pc = "test" /\ wt_pc' = "fetch"

\* C37: for every sequence of provider answers, with time advancing on each
\* sleep, wait_for_running eventually returns, with exactly one of success
\* with the pod, failure with the pod (terminal status) and failure without a
\* pod (timeout), and it starts no poll once the timeout has elapsed.
C37_WaitTerminates ==
    /\ [](wt_pc = "done" => WaitOutcome)
    /\ [][StartsPoll => elapsed < 600]_vars
    /\ WaitRunning ~> (wt_pc = "done")

C37_Witness ==
    /\ wt_pc = "done"
    /\ wait_result.kind = "return"
    /\ ~wait_result.success
    /\ wait_result.pod = UnboundPod
    /\ elapsed >= 600
    /\ wt_pod.desired_status = "RUNNING"
    /\ wt_prev = "error"

----------------------------------------------------------------------------
(* main.py: the active pod id after cleanup *)

\* C38: after a pod was created, the orchestrator's active pod id is empty
\* only if a delete for that pod has succeeded: cleanup never clears it
\* while the termination of the remote pod failed, and once cleanup has run
\* the pod manager's own active id agrees with the orchestrator's.
C38_NoAbandonedPod ==
    /\ ("delete" \in Tracked(events) /\ g_current_pod_id = None) =>
         terminate_result = "True"
    /\ CleanupHasRun => current_pod_id = g_current_pod_id

====
